---- MODULE Spec2Model ----
(***************************************************************************)
(* A model of pyschlage: the Lock entity, its access codes and the         *)
(* side-car notifications, and the requests they issue through the Auth    *)
(* session.  Python strings that the code slices or prefixes are modelled  *)
(* as sequences of characters; Optional[T] is <<>> (None) or <<v>>.        *)
(***************************************************************************)
EXTENDS Integers, Sequences, FiniteSets, TLC

VARIABLES
    lock,      \* the Lock object (pyschlage.lock.Lock)
    codes,     \* heap of AccessCode objects, by reference
    notifs,    \* heap of Notification objects, by reference
    uid,       \* Auth._user_id: the memoized user id, None until first read
    stored,    \* history: the notification objects the server has a record of
    last,      \* the last call: operation, target, requests issued, outcome
    threads,   \* the threads inside a call: where each is, and its local values
    sent,      \* the GET users/@me requests the threads have sent so far
    entity,    \* the Mutable instance the threads merge into
    held,      \* for every mutex of the merges, the thread that holds it (0: free)
    mqtt       \* the push channel of the session: its transport clients and callbacks

\* What the calls of several threads, and the push channel, work on.
threadVars == <<threads, sent, entity, held, mqtt>>

vars == <<lock, codes, notifs, uid, stored, last, threads, sent, entity, held, mqtt>>

-----------------------------------------------------------------------------
(* Bounds of the model *)

MaxCodes == 1        \* AccessCode objects the caller constructs

-----------------------------------------------------------------------------
(* Python values *)

None == <<>>
Some(v) == <<v>>
IsNone(o) == o = <<>>
Val(o) == o[1]

NoAuth == "None"      \* _auth is None
TheAuth == "auth"     \* the one Auth session
NoDevice == "None"    \* _device is None
TheLock == "lock"     \* the one Lock object
NoRef == 0            \* _notification is None

\* str.startswith
StartsWith(s, p) == Len(s) >= Len(p) /\ SubSeq(s, 1, Len(p)) = p

\* str(x) inside an f-string, for an Optional[str]
FmtOpt(o) == IF IsNone(o) THEN <<"N", "o", "n", "e">> ELSE Val(o)

\* truthiness of an Optional[str]
Truthy(o) == ~IsNone(o) /\ Val(o) # <<>>

\* The result of a wrapped call: the exception it raised ("ok": none) and the
\* value returned, or the message of the exception.
Result(exc, value) == [exc |-> exc, value |-> value]

-----------------------------------------------------------------------------
(* Identifiers the server and the session hand out *)

USER_ID == <<"u">>                       \* identityId of users/@me
ServerIds == <<<<"7">>, <<"8">>, <<"9">>>>  \* the id the server assigns to the k-th access code
DEVICE_ID == <<"d">>

WIFI_TYPE == <<"b", "e", "4", "8", "9", "w", "i", "f", "i">>
BLE_TYPE == <<"b", "e", "4", "7", "9">>

ON_UNLOCK_ACTION == "onunlockstateaction"

AUTO_LOCK_TIMES == {0, 5, 15, 30, 60, 120, 240, 300}

\* The id with its two parts exchanged.
NotificationIdSwapped(user, codeId) == FmtOpt(codeId) \o <<"_">> \o user

\* f"{user_id}_{access_code_id}"
NotificationIdFor(user, codeId) == user \o <<"_">> \o FmtOpt(codeId)

-----------------------------------------------------------------------------
(* JSON payloads.  A dict is a function whose domain is its set of keys. *)

Get(json, key, default) == IF key \in DOMAIN json THEN json[key] ELSE default

\* A device payload as the server returns it for GET/PUT devices/{id}.
LockJson(deviceType, attributes) ==
    [deviceId |-> DEVICE_ID, devicetypeId |-> deviceType, CAT |-> "cat",
     attributes |-> attributes]

\* The attributes of the device payload the lock was decoded from.
InitialAttributes ==
    [lockState |-> 1, beeperEnabled |-> 1, lockAndLeaveEnabled |-> 1, autoLockTime |-> 0,
     batteryLevel |-> 95, mainFirmwareVersion |-> "10.00"]

DeviceTypes == {WIFI_TYPE, BLE_TYPE}

\* The attribute dicts the server answers with.
AttributeDicts ==
    { InitialAttributes,
      [lockState |-> 0, beeperEnabled |-> 0, lockAndLeaveEnabled |-> 0, autoLockTime |-> 15,
       batteryLevel |-> 66, mainFirmwareVersion |-> "10.01"],
      [lockState |-> 2] }

LockPayloads(deviceType) == { LockJson(deviceType, a) : a \in AttributeDicts }

-----------------------------------------------------------------------------
(* The call context: the objects a call can touch, the requests it has     *)
(* issued so far, and the exception that ended it ("ok" while running).    *)
(* fail is the position of the request the transport fails (0: none).      *)

Ctx(fail) ==
    [lock |-> lock, codes |-> codes, notifs |-> notifs, uid |-> uid, stored |-> stored,
     reqs |-> <<>>, exc |-> "ok", ret |-> <<>>, fail |-> fail]

Raise(s, e) == IF s.exc # "ok" THEN s ELSE [s EXCEPT !.exc = e]

EmptyDict == <<>>

\* A call of Auth.request(method, path, *args, **kwargs).  The path is kept as
\* its template and the id put into it.  Auth.request's third positional
\* parameter is base_url, so a value in args is bound to base_url.
Request(method, url, id, args, kwargs) ==
    [method |-> method, url |-> url, id |-> id, args |-> args, kwargs |-> kwargs]

Call(method, url, id) == Request(method, url, id, <<>>, EmptyDict)
CallJson(method, url, id, json) == Request(method, url, id, <<>>, [json |-> json])
CallParams(method, url, id, params) == Request(method, url, id, <<>>, [params |-> params])

\* Auth.request: sends the request; the transport's failure surfaces as
\* UnknownError (or NotAuthorizedError) out of the two wrappers.
AuthRequest(s, req) ==
    IF s.exc # "ok" THEN s
    ELSE [s EXCEPT !.reqs = Append(@, req),
                   !.exc = IF Len(s.reqs) + 1 = s.fail THEN "UnknownError" ELSE "ok"]

\* user_id that looks the id up on every read.
AuthUserIdUncached(s) ==
    IF s.exc # "ok" THEN s
    ELSE LET s1 == AuthRequest(s, Call("get", "users/@me", <<>>))
         IN  IF s1.exc # "ok" THEN s1 ELSE [s1 EXCEPT !.uid = Some(USER_ID)]

\* Auth.user_id: one GET users/@me on first access, memoized afterwards.
AuthUserId(s) ==
    IF s.exc # "ok" \/ ~IsNone(s.uid) THEN s
    ELSE LET s1 == AuthRequest(s, Call("get", "users/@me", <<>>))
         IN  IF s1.exc # "ok" THEN s1 ELSE [s1 EXCEPT !.uid = Some(USER_ID)]

-----------------------------------------------------------------------------
(* Lock *)

\* Lock() with the dataclass defaults: a detached lock.
DetachedLock ==
    [_auth |-> NoAuth, device_id |-> <<>>, device_type |-> <<>>,
     is_locked |-> Some(FALSE), is_jammed |-> Some(FALSE),
     beeper_enabled |-> FALSE, lock_and_leave_enabled |-> FALSE,
     auto_lock_time |-> 0, access_codes |-> None, _cat |-> "",
     battery_level |-> None, firmware_version |-> None,
     lock_state_metadata |-> None, users |-> EmptyDict]

\* dict.get(key), for a key whose value is kept as an Optional.
GetOpt(json, key) == IF key \in DOMAIN json THEN Some(json[key]) ELSE None

\* The users of a device payload, keyed by their id (a later entry with the
\* same id replaces an earlier one).  User.from_json reads friendlyName,
\* email and identityId.
UsersFromJson(json) ==
    LET list == Get(json, "users", <<>>)
        ids == { list[i].identityId : i \in 1..Len(list) }
        lastOf(id) == CHOOSE i \in 1..Len(list) :
                          /\ list[i].identityId = id
                          /\ \A j \in (i + 1)..Len(list) : list[j].identityId # id
    IN  [id \in ids |-> [name |-> list[lastOf(id)].friendlyName,
                         email |-> list[lastOf(id)].email, user_id |-> id]]

\* LockStateMetadata.from_json
LockStateMetadataFromJson(json) ==
    [action_type |-> json.actionType, uuid |-> json.UUID, name |-> json.name]

\* from_json that gives the fields of an unavailable lock the dataclass
\* defaults instead of None.
LockFromJsonFalsy(auth, json) ==
    LET attributes == json.attributes
        has == "lockState" \in DOMAIN attributes
    IN  [_auth |-> auth,
         device_id |-> json.deviceId,
         device_type |-> json.devicetypeId,
         is_locked |-> Some(has /\ attributes.lockState = 1),
         is_jammed |-> Some(has /\ attributes.lockState = 2),
         beeper_enabled |-> Get(attributes, "beeperEnabled", -1) = 1,
         lock_and_leave_enabled |-> Get(attributes, "lockAndLeaveEnabled", -1) = 1,
         auto_lock_time |-> Get(attributes, "autoLockTime", 0),
         access_codes |-> None,
         _cat |-> Get(json, "CAT", ""),
         battery_level |-> Some(Get(attributes, "batteryLevel", 0)),
         firmware_version |-> Some(Get(attributes, "mainFirmwareVersion", "")),
         lock_state_metadata |->
             IF "lockStateMetadata" \in DOMAIN attributes
             THEN Some(LockStateMetadataFromJson(attributes.lockStateMetadata))
             ELSE None,
         users |-> UsersFromJson(json)]

LockFromJson(auth, json) ==
    LET attributes == json.attributes
        has == "lockState" \in DOMAIN attributes
    IN  [_auth |-> auth,
         device_id |-> json.deviceId,
         device_type |-> json.devicetypeId,
         is_locked |-> IF has THEN Some(attributes.lockState = 1) ELSE None,
         is_jammed |-> IF has THEN Some(attributes.lockState = 2) ELSE None,
         beeper_enabled |-> Get(attributes, "beeperEnabled", -1) = 1,
         lock_and_leave_enabled |-> Get(attributes, "lockAndLeaveEnabled", -1) = 1,
         auto_lock_time |-> Get(attributes, "autoLockTime", 0),
         access_codes |-> None,
         _cat |-> Get(json, "CAT", ""),
         battery_level |-> GetOpt(attributes, "batteryLevel"),
         firmware_version |-> GetOpt(attributes, "mainFirmwareVersion"),
         lock_state_metadata |->
             IF "lockStateMetadata" \in DOMAIN attributes
             THEN Some(LockStateMetadataFromJson(attributes.lockStateMetadata))
             ELSE None,
         users |-> UsersFromJson(json)]

\* _is_wifi_lock with one prefix only.
IsWifiLockOnePrefix(l) == StartsWith(l.device_type, <<"b", "e", "4", "8", "9">>)

IsWifiLock(l) ==
    \E prefix \in {<<"b", "e", "4", "8", "9">>, <<"b", "e", "4", "9", "9">>,
                   <<"f", "e", "7", "8", "9">>} : StartsWith(l.device_type, prefix)

\* _update_with that copies nothing.
LockUpdateWithoutCopy(s, json) == s

\* Mutable._update_with on the lock: decode a fresh Lock and copy every
\* declared field of it onto the live object.
LockUpdateWith(s, json) ==
    IF s.exc # "ok" THEN s
    ELSE IF s.lock._auth = NoAuth THEN Raise(s, "NotAuthenticatedError")
    ELSE [s EXCEPT !.lock = LockFromJson(s.lock._auth, json)]

\* Device.send_command: POST devices/{id}/commands {data, name}.
SendCommand(s, command, data) ==
    IF s.exc # "ok" THEN s
    ELSE IF s.lock._auth = NoAuth THEN Raise(s, "NotAuthenticatedError")
    ELSE AuthRequest(s, CallJson("post", "devices/{id}/commands", s.lock.device_id,
                                 [data |-> data, name |-> command]))

\* A refresh that, after the merge, inverts the beeper setting it found.
LockRefreshFlipping(s, json) ==
    IF s.lock._auth = NoAuth THEN Raise(s, "NotAuthenticatedError")
    ELSE LET s1 == LockUpdateWith(
                       AuthRequest(s, Call("get", "devices/{id}", s.lock.device_id)), json)
         IN  IF s1.exc # "ok" THEN s1
             ELSE [s1 EXCEPT !.lock.beeper_enabled = ~s.lock.beeper_enabled]

LockRefreshOnly(s, json) ==
    IF s.lock._auth = NoAuth THEN Raise(s, "NotAuthenticatedError")
    ELSE LockUpdateWith(
             AuthRequest(s, Call("get", "devices/{id}", s.lock.device_id)),
             json)

\* Lock._put_attributes without its check of the session.
PutAttributesUnchecked(s, attributes, json) ==
    LockUpdateWith(
        AuthRequest(s, CallJson("put", "devices/{id}", s.lock.device_id,
                                [attributes |-> attributes])),
        json)

PutAttributes(s, attributes, json) ==
    IF s.exc # "ok" THEN s
    ELSE IF s.lock._auth = NoAuth THEN Raise(s, "NotAuthenticatedError")
    ELSE LockUpdateWith(
             AuthRequest(s, CallJson("put", "devices/{id}", s.lock.device_id,
                                     [attributes |-> attributes])),
             json)

\* _toggle that takes the attribute path for every device type.
ToggleByAttributes(s, lock_state, json) ==
    PutAttributes(s, [lockState |-> lock_state], json)

\* _toggle whose command path assigns is_locked and leaves is_jammed alone.
ToggleKeepsJammed(s, lock_state, json) ==
    IF s.lock._auth = NoAuth THEN Raise(s, "NotAuthenticatedError")
    ELSE IF IsWifiLock(s.lock) THEN PutAttributes(s, [lockState |-> lock_state], json)
    ELSE LET s1 == AuthUserId(s)
             data == [CAT |-> s.lock._cat, deviceId |-> s.lock.device_id,
                      state |-> lock_state, userId |-> FmtOpt(s1.uid)]
             s2 == SendCommand(s1, "changelockstate", data)
         IN  IF s2.exc # "ok" THEN s2
             ELSE [s2 EXCEPT !.lock.is_locked = Some(lock_state = 1)]

Toggle(s, lock_state, json) ==
    IF s.lock._auth = NoAuth THEN Raise(s, "NotAuthenticatedError")
    ELSE IF IsWifiLock(s.lock) THEN PutAttributes(s, [lockState |-> lock_state], json)
    ELSE LET s1 == AuthUserId(s)
             data == [CAT |-> s.lock._cat, deviceId |-> s.lock.device_id,
                      state |-> lock_state, userId |-> FmtOpt(s1.uid)]
             s2 == SendCommand(s1, "changelockstate", data)
         IN  IF s2.exc # "ok" THEN s2
             ELSE [s2 EXCEPT !.lock.is_locked = Some(lock_state = 1),
                             !.lock.is_jammed = Some(FALSE)]

SetBeeper(s, enabled, json) ==
    PutAttributes(s, [beeperEnabled |-> IF enabled THEN 1 ELSE 0], json)

SetLockAndLeave(s, enabled, json) ==
    PutAttributes(s, [lockAndLeaveEnabled |-> IF enabled THEN 1 ELSE 0], json)

\* set_auto_lock_time without the check of the value.
SetAutoLockTimeUnvalidated(s, auto_lock_time, json) ==
    PutAttributes(s, [autoLockTime |-> auto_lock_time], json)

SetAutoLockTime(s, auto_lock_time, json) ==
    IF auto_lock_time \notin AUTO_LOCK_TIMES THEN Raise(s, "ValueError")
    ELSE PutAttributes(s, [autoLockTime |-> auto_lock_time], json)

\* last_changed_by that looks no user up and names the role only.
LastChangedByRoleOnly(l) ==
    IF l.lock_state_metadata = None THEN None
    ELSE LET action_type == Val(l.lock_state_metadata).action_type
         IN  Some(CASE action_type = "thumbTurn" -> "thumbturn"
                    [] action_type = "1touchLocking" -> "1-touch locking"
                    [] action_type = "accesscode" -> "keypad"
                    [] action_type = "AppleHomeNFC" -> "apple nfc device"
                    [] action_type = "virtualKey" -> "mobile device"
                    [] OTHER -> "unknown")

\* Lock.last_changed_by of lock l: None, or the label.  An f-string writes a
\* None name as "None".
LastChangedBy(l) ==
    IF l.lock_state_metadata = None THEN None
    ELSE LET metadata == Val(l.lock_state_metadata)
             uuid == metadata.uuid
             user_suffix == IF uuid # None /\ Val(uuid) \in DOMAIN l.users
                            THEN " - " \o l.users[Val(uuid)].name
                            ELSE ""
             action_type == metadata.action_type
         IN  Some(CASE action_type = "thumbTurn" -> "thumbturn"
                    [] action_type = "1touchLocking" -> "1-touch locking"
                    [] action_type = "accesscode" ->
                           "keypad - " \o (IF metadata.name = None THEN "None"
                                           ELSE Val(metadata.name))
                    [] action_type = "AppleHomeNFC" -> "apple nfc device" \o user_suffix
                    [] action_type = "virtualKey" -> "mobile device" \o user_suffix
                    [] OTHER -> "unknown")

\* Lock.logs: one GET; the entries are returned, nothing is stored.
LockLogs(s) ==
    IF s.lock._auth = NoAuth THEN Raise(s, "NotAuthenticatedError")
    ELSE AuthRequest(s, CallParams("get", "devices/{id}/logs", s.lock.device_id, EmptyDict))

\* The longest list of log entries the caller passes or the server returns.
MaxLogs == 2

\* LockLog.from_json: created_at is the entry's instant (the ISO text parsed
\* and moved to local time, which keeps the order of instants); message is the
\* text of the event code.  keypad_disabled reads no other field.
LockLogFromJson(json) ==
    LET LOG_EVENT_TYPES == (2 :> "Unlocked by keypad") @@ (11 :> "Keypad disabled invalid code")
    IN  [created_at |-> json.createdAt,
         message |-> Get(LOG_EVENT_TYPES, json.message.eventCode, "Unknown")]

\* sorted(logs, reverse=True, key=lambda log: log.created_at): the sort is
\* stable, so entries of equal created_at keep the order they came in.
RECURSIVE SortedNewestFirst(_)
SortedNewestFirst(logs) ==
    IF logs = <<>> THEN <<>>
    ELSE LET i == CHOOSE k \in 1..Len(logs) :
                      /\ \A j \in 1..Len(logs) : logs[j].created_at <= logs[k].created_at
                      /\ \A j \in 1..(k - 1) : logs[j].created_at < logs[k].created_at
         IN  <<logs[i]>> \o SortedNewestFirst(SubSeq(logs, 1, i - 1)
                                              \o SubSeq(logs, i + 1, Len(logs)))

\* Lock.keypad_disabled(logs): logs is None or a list of entries; log_resp is
\* what the server answers to the GET of logs().
KeypadDisabled(s, logs, log_resp) ==
    LET s1 == IF logs = None THEN LockLogs(s) ELSE s
        entries == IF logs = None
                   THEN [i \in 1..Len(log_resp) |-> LockLogFromJson(log_resp[i])]
                   ELSE Val(logs)
    IN  IF s1.exc # "ok" THEN s1
        ELSE [s1 EXCEPT !.ret =
                  Some(/\ entries # <<>>
                       /\ SortedNewestFirst(entries)[1].message
                              = "Keypad disabled invalid code")]

-----------------------------------------------------------------------------
(* Notification *)

Names == <<"a", "b", "c">>               \* the name the caller gives its k-th access code

\* An unused slot of the notification heap.
FreeSlot == [free |-> TRUE]

\* Every access code caches at most one notification.
NotifRefs == 1..MaxCodes

IsFree(n) == "free" \in DOMAIN n

\* Notification(...) as AccessCode.save constructs it.
NewNotification(auth, notification_id, user_id, device_id, device_type) ==
    [_auth |-> auth, notification_id |-> Some(notification_id),
     user_id |-> Some(user_id), device_id |-> device_id,
     device_type |-> Some(device_type), notification_type |-> ON_UNLOCK_ACTION,
     active |-> FALSE, filter_value |-> None, created_at |-> None]

NotificationFromJson(auth, json) ==
    [_auth |-> auth, notification_id |-> Some(json.notificationId),
     user_id |-> Some(json.userId), device_id |-> Some(json.deviceId),
     device_type |-> None,
     notification_type |-> json.notificationDefinitionId,
     active |-> json.active,
     filter_value |-> IF "filterValue" \in DOMAIN json THEN Some(json.filterValue) ELSE None,
     created_at |-> Some(json.createdAt)]

NotificationToJson(n) ==
    LET json == [notificationId |-> FmtOpt(n.notification_id),
                 userId |-> n.user_id, deviceId |-> n.device_id,
                 devicetypeId |-> n.device_type,
                 notificationDefinitionId |-> n.notification_type,
                 active |-> n.active]
    IN  IF ~IsNone(n.filter_value)
        THEN json @@ [filterValue |-> Val(n.filter_value)]
        ELSE json

\* The record the server stores and answers a POST/PUT of a notification with.
StoredNotification(body) ==
    LET json == [notificationId |-> body.notificationId,
                 userId |-> IF IsNone(body.userId) THEN <<>> ELSE Val(body.userId),
                 deviceId |-> IF IsNone(body.deviceId) THEN <<>> ELSE Val(body.deviceId),
                 notificationDefinitionId |-> body.notificationDefinitionId,
                 active |-> body.active,
                 createdAt |-> "t0", updatedAt |-> "t1"]
    IN  IF "filterValue" \in DOMAIN body
        THEN json @@ [filterValue |-> body.filterValue]
        ELSE json

\* Mutable._update_with on a notification.
NotificationUpdateWith(s, n, json) ==
    IF s.exc # "ok" THEN s
    ELSE IF s.notifs[n]._auth = NoAuth THEN Raise(s, "NotAuthenticatedError")
    ELSE [s EXCEPT !.notifs[n] = NotificationFromJson(s.notifs[n]._auth, json)]

\* Notification.save that always creates.
SaveMethodAlwaysPost(n) == "post"

SaveMethod(n) == IF ~IsNone(n.created_at) THEN "put" ELSE "post"

NotificationSave(s, n) ==
    IF s.exc # "ok" THEN s
    ELSE IF s.notifs[n]._auth = NoAuth THEN Raise(s, "NotAuthenticatedError")
    ELSE LET obj == s.notifs[n]
             body == NotificationToJson(obj)
             s1 == AuthRequest(s, Request(SaveMethod(obj), "notifications/{id}",
                                          FmtOpt(obj.notification_id), <<body>>, EmptyDict))
             s2 == IF s1.exc # "ok" THEN s1 ELSE [s1 EXCEPT !.stored = @ \cup {n}]
         IN  NotificationUpdateWith(s2, n, StoredNotification(body))

NotificationDelete(s, n) ==
    IF s.exc # "ok" THEN s
    ELSE IF s.notifs[n]._auth = NoAuth THEN Raise(s, "NotAuthenticatedError")
    ELSE LET obj == s.notifs[n]
             s1 == AuthRequest(s, Call("delete", "notifications/{id}",
                                       FmtOpt(obj.notification_id)))
         IN  IF s1.exc # "ok" THEN s1
             ELSE [s1 EXCEPT !.stored = @ \ {n},
                             !.notifs[n]._auth = NoAuth,
                             !.notifs[n].notification_id = None,
                             !.notifs[n].active = FALSE]

\* The lowest unused slot of the notification heap (0 when it is full).
FreeNotifRef(ns) ==
    IF \E r \in NotifRefs : IsFree(ns[r])
    THEN CHOOSE r \in NotifRefs : IsFree(ns[r]) /\ \A q \in NotifRefs : IsFree(ns[q]) => r <= q
    ELSE 0

-----------------------------------------------------------------------------
(* Schedules of access codes: DaysOfWeek and RecurringSchedule.  The texts  *)
(* are sequences of characters; a DaysOfWeek is the tuple astuple() gives,  *)
(* sun first.                                                               *)

\* DaysOfWeek.from_str: the flags of bits 6..0 of int(s, 16), sun first.
\* int(s, 16) of a text of hex digits of either case is Some(n), or None for
\* the ValueError an empty text raises.
DaysOfWeekFromStr(s) ==
    LET digits == <<{"0"}, {"1"}, {"2"}, {"3"}, {"4"}, {"5"}, {"6"}, {"7"},
                    {"8"}, {"9"}, {"a", "A"}, {"b", "B"}, {"c", "C"}, {"d", "D"},
                    {"e", "E"}, {"f", "F"}>>
        RECURSIVE int(_)
        int(x) ==
            IF x = <<>> THEN None
            ELSE LET d == CHOOSE k \in 0..15 : x[Len(x)] \in digits[k + 1]
                 IN  IF Len(x) = 1 THEN Some(d)
                     ELSE Some(16 * Val(int(SubSeq(x, 1, Len(x) - 1))) + d)
        n == int(s)
    IN  IF n = None THEN Result("ValueError", <<>>)
        ELSE Result("ok", [i \in 1..7 |-> (Val(n) \div (2 ^ (7 - i))) % 2 = 1])

\* DaysOfWeek.to_str: n = (n << 1) | d over the flags, then
\* hex(n).lstrip("0x").upper().  hex(n) of n >= 0 is "0x" and the digits of n
\* without leading zeros; lstrip(chars) removes every leading character that
\* is in chars; upper() changes the letters hex() writes.
DaysOfWeekToStr(d) ==
    LET RECURSIVE shifted(_)
        shifted(k) == IF k = 0 THEN 0 ELSE 2 * shifted(k - 1) + (IF d[k] THEN 1 ELSE 0)
        digits == <<"0", "1", "2", "3", "4", "5", "6", "7",
                    "8", "9", "a", "b", "c", "d", "e", "f">>
        RECURSIVE hex(_)
        hex(n) == IF n < 16 THEN <<"0", "x", digits[n + 1]>>
                  ELSE hex(n \div 16) \o <<digits[(n % 16) + 1]>>
        RECURSIVE lstrip(_, _)
        lstrip(s, chars) ==
            IF s # <<>> /\ s[1] \in chars THEN lstrip(Tail(s), chars) ELSE s
        letters == [c \in {"a", "b", "c", "d", "e", "f", "x"} |->
                       CASE c = "a" -> "A" [] c = "b" -> "B" [] c = "c" -> "C"
                         [] c = "d" -> "D" [] c = "e" -> "E" [] c = "f" -> "F"
                         [] c = "x" -> "X"]
        upper(s) == [i \in 1..Len(s) |-> Get(letters, s[i], s[i])]
    IN  upper(lstrip(hex(shifted(7)), {"0", "x"}))

\* RecurringSchedule.to_json
RecurringScheduleToJson(sched) ==
    [daysOfWeek |-> DaysOfWeekToStr(sched.days_of_week),
     startHour |-> sched.start_hour, startMinute |-> sched.start_minute,
     endHour |-> sched.end_hour, endMinute |-> sched.end_minute]

\* RecurringSchedule.from_json(json), json being None or a dict: None for a
\* falsy json and for the schedule of every day from 00:00 to 23:59.
RecurringScheduleFromJson(json) ==
    IF json = None \/ Val(json) = EmptyDict THEN Result("ok", None)
    ELSE LET j == Val(json)
             days == DaysOfWeekFromStr(j.daysOfWeek)
         IN  IF /\ j.daysOfWeek = <<"7", "F">>
                /\ j.startHour = 0 /\ j.startMinute = 0
                /\ j.endHour = 23 /\ j.endMinute = 59
             THEN Result("ok", None)
             ELSE IF days.exc # "ok" THEN days
             ELSE Result("ok", Some([days_of_week |-> days.value,
                                     start_hour |-> j.startHour,
                                     start_minute |-> j.startMinute,
                                     end_hour |-> j.endHour,
                                     end_minute |-> j.endMinute]))

\* A time in seconds since the epoch, as the two 16-bit halves of its 32-bit
\* value: _MIN_TIME = 0 and _MAX_TIME = 0xFFFFFFFF.
MIN_TIME == <<0, 0>>
MAX_TIME == <<65535, 65535>>

\* TemporarySchedule.from_json: datetime.fromtimestamp of the two integers.
\* A datetime is its whole seconds since the epoch and its microsecond.
TemporaryScheduleFromJson(json) ==
    [start |-> [secs |-> json.activationSecs, microsecond |-> 0],
     end |-> [secs |-> json.expirationSecs, microsecond |-> 0]]

\* TemporarySchedule.to_json: int(timestamp()) of start and end.
TemporaryScheduleToJson(sched) ==
    [activationSecs |-> sched.start.secs, expirationSecs |-> sched.end.secs]

\* isinstance(schedule, RecurringSchedule), for a schedule that is not None
IsRecurring(schedule) == "days_of_week" \in DOMAIN Val(schedule)

\* AccessCode.from_json, lines 191-195: the schedule of the payload.
ScheduleFromJson(json) ==
    IF json.activationSecs = MIN_TIME /\ json.expirationSecs = MAX_TIME
    THEN RecurringScheduleFromJson(Some(json.schedule1))
    ELSE Result("ok", Some(TemporaryScheduleFromJson(json)))

-----------------------------------------------------------------------------
(* AccessCode *)

\* code is f"{json['accessCode']:0{access_code_length}}": the decimal digits
\* of the number, with zeros in front up to the length.
AccessCodeFromJson(auth, device, device_id, json) ==
    LET digits == <<"0", "1", "2", "3", "4", "5", "6", "7", "8", "9">>
        RECURSIVE str(_)
        str(n) == IF n < 10 THEN <<digits[n + 1]>>
                  ELSE str(n \div 10) \o <<digits[(n % 10) + 1]>>
        RECURSIVE padded(_, _)
        padded(s, width) == IF Len(s) >= width THEN s ELSE padded(<<"0">> \o s, width)
    IN
    [_auth |-> auth, _device |-> device, _notification |-> NoRef,
     name |-> json.friendlyName,
     code |-> padded(str(json.accessCode), Get(json, "accessCodeLength", 4)),
     schedule |-> ScheduleFromJson(json).value,
     notify_on_use |-> json.notification # 0,
     disabled |-> Get(json, "disabled", 0) # 0,
     device_id |-> Some(device_id),
     access_code_id |-> Some(json.accesscodeId),
     _json |-> TRUE]

\* to_json whose schedule1 starts empty.
AccessCodeToJsonEmptySchedule1(c) ==
    LET json == [friendlyName |-> c.name,
                 accessCode |-> 0,
                 accessCodeLength |-> Len(c.code),
                 notification |-> IF c.notify_on_use THEN 1 ELSE 0,
                 notificationEnabled |-> c.notify_on_use,
                 disabled |-> IF c.disabled THEN 1 ELSE 0,
                 activationSecs |-> MIN_TIME,
                 expirationSecs |-> MAX_TIME,
                 schedule1 |-> EmptyDict,
                 accesscodeId |-> FmtOpt(c.access_code_id)]
    IN  IF IsNone(c.schedule) THEN json
        ELSE IF IsRecurring(c.schedule)
        THEN [schedule1 |-> RecurringScheduleToJson(Val(c.schedule))] @@ json
        ELSE TemporaryScheduleToJson(Val(c.schedule)) @@ json

\* AccessCode.to_json.  int(self.code) is the number the decimal digits
\* write; schedule1 starts as RecurringSchedule().to_json().
AccessCodeToJson(c) ==
    LET digits == <<"0", "1", "2", "3", "4", "5", "6", "7", "8", "9">>
        RECURSIVE int(_)
        int(s) == IF s = <<>> THEN 0
                  ELSE 10 * int(SubSeq(s, 1, Len(s) - 1))
                       + (CHOOSE k \in 0..9 : digits[k + 1] = s[Len(s)])
        default == [days_of_week |-> [i \in 1..7 |-> TRUE],
                    start_hour |-> 0, start_minute |-> 0,
                    end_hour |-> 23, end_minute |-> 59]
        json == [friendlyName |-> c.name,
                 accessCode |-> int(c.code),
                 accessCodeLength |-> Len(c.code),
                 notification |-> IF c.notify_on_use THEN 1 ELSE 0,
                 notificationEnabled |-> c.notify_on_use,
                 disabled |-> IF c.disabled THEN 1 ELSE 0,
                 activationSecs |-> MIN_TIME,
                 expirationSecs |-> MAX_TIME,
                 schedule1 |-> RecurringScheduleToJson(default)]
        withId == IF Truthy(c.access_code_id)
                  THEN json @@ [accesscodeId |-> Val(c.access_code_id)]
                  ELSE json
    IN  IF IsNone(c.schedule) THEN withId
        ELSE IF IsRecurring(c.schedule)
        THEN [schedule1 |-> RecurringScheduleToJson(Val(c.schedule))] @@ withId
        ELSE TemporaryScheduleToJson(Val(c.schedule)) @@ withId

\* AccessCode.save that always sends the creation command.
SaveCommandAlwaysAdd(c) == "addaccesscode"

SaveCommand(c) ==
    IF Truthy(c.access_code_id) THEN "updateaccesscode" ELSE "addaccesscode"

\* The command responses the server gives access code r: a creation answers
\* with the id it assigned, an update with the same id or with no id at all.
CommandResponses(c, r) ==
    IF Truthy(c.access_code_id)
    THEN {EmptyDict, [accesscodeId |-> Val(c.access_code_id)]}
    ELSE {[accesscodeId |-> ServerIds[r]]}

\* save(), lines 258-266: construct the Notification when none is cached.
EnsureNotification(s, r) ==
    IF s.exc # "ok" \/ s.codes[r]._notification # NoRef THEN s
    ELSE LET s1 == AuthUserId(s)
             c == s1.codes[r]
             n == FreeNotifRef(s1.notifs)
         IN  IF s1.exc # "ok" THEN s1
             ELSE [s1 EXCEPT
                     !.notifs[n] = NewNotification(
                         c._auth,
                         NotificationIdFor(Val(s1.uid), c.access_code_id),
                         Val(s1.uid), c.device_id, s1.lock.device_type),
                     !.codes[r]._notification = n]

\* save() that copies the name to the notification but not notify_on_use.
SyncNotificationNameOnly(s, r) ==
    IF s.exc # "ok" THEN s
    ELSE LET c == s.codes[r]
             n == c._notification
         IN  [s EXCEPT !.notifs[n].filter_value = Some(c.name)]

\* save(), lines 267-268.
SyncNotification(s, r) ==
    IF s.exc # "ok" THEN s
    ELSE LET c == s.codes[r]
             n == c._notification
         IN  [s EXCEPT !.notifs[n].filter_value = Some(c.name),
                       !.notifs[n].active = c.notify_on_use]

AccessCodeSave(s, r, resp) ==
    IF s.exc # "ok" THEN s
    ELSE IF s.codes[r]._auth = NoAuth THEN Raise(s, "NotAuthenticatedError")
    ELSE IF s.codes[r]._device = NoDevice THEN Raise(s, "AssertionError")
    ELSE LET c == s.codes[r]
             s1 == SendCommand(s, SaveCommand(c), AccessCodeToJson(c))
             s2 == IF s1.exc # "ok" THEN s1
                   ELSE [s1 EXCEPT
                           !.codes[r].access_code_id =
                               IF "accesscodeId" \in DOMAIN resp
                               THEN Some(resp.accesscodeId) ELSE @,
                           !.codes[r].device_id = Some(s1.lock.device_id)]
             s3 == EnsureNotification(s2, r)
             s4 == SyncNotification(s3, r)
         IN  IF s4.exc # "ok" THEN s4
             ELSE NotificationSave(s4, s4.codes[r]._notification)

\* delete() that deletes the notification before it sends the command.
AccessCodeDeleteNotificationFirst(s, r) ==
    IF s.codes[r]._auth = NoAuth THEN Raise(s, "NotAuthenticatedError")
    ELSE IF s.codes[r]._device = NoDevice THEN Raise(s, "AssertionError")
    ELSE LET c == s.codes[r]
             s1 == IF c._notification # NoRef
                   THEN NotificationDelete(s, c._notification)
                   ELSE s
             s2 == SendCommand(s1, "deleteaccesscode", AccessCodeToJson(c))
         IN  IF s2.exc # "ok" THEN s2
             ELSE [s2 EXCEPT !.codes[r]._auth = NoAuth,
                             !.codes[r]._json = FALSE,
                             !.codes[r]._device = NoDevice,
                             !.codes[r]._notification = NoRef,
                             !.codes[r].access_code_id = None,
                             !.codes[r].disabled = TRUE]

\* delete() that drops the code's references before it sends the command.
AccessCodeDeleteDetachingFirst(s, r) ==
    IF s.codes[r]._auth = NoAuth THEN Raise(s, "NotAuthenticatedError")
    ELSE IF s.codes[r]._device = NoDevice THEN Raise(s, "AssertionError")
    ELSE LET c == s.codes[r]
             s0 == [s EXCEPT !.codes[r]._auth = NoAuth,
                             !.codes[r]._json = FALSE,
                             !.codes[r]._device = NoDevice,
                             !.codes[r]._notification = NoRef,
                             !.codes[r].access_code_id = None,
                             !.codes[r].disabled = TRUE]
             s1 == SendCommand(s0, "deleteaccesscode", AccessCodeToJson(c))
         IN  IF c._notification # NoRef
             THEN NotificationDelete(s1, c._notification)
             ELSE s1

AccessCodeDelete(s, r) ==
    IF s.codes[r]._auth = NoAuth THEN Raise(s, "NotAuthenticatedError")
    ELSE IF s.codes[r]._device = NoDevice THEN Raise(s, "AssertionError")
    ELSE LET c == s.codes[r]
             s1 == SendCommand(s, "deleteaccesscode", AccessCodeToJson(c))
             s2 == IF c._notification # NoRef
                   THEN NotificationDelete(s1, c._notification)
                   ELSE s1
         IN  IF s2.exc # "ok" THEN s2
             ELSE [s2 EXCEPT !.codes[r]._auth = NoAuth,
                             !.codes[r]._json = FALSE,
                             !.codes[r]._device = NoDevice,
                             !.codes[r]._notification = NoRef,
                             !.codes[r].access_code_id = None,
                             !.codes[r].disabled = TRUE]

\* add_access_code that leaves a deleted code without a session.
AddAccessCodeUnlessDeleted(s, r, resp) ==
    IF s.codes[r].disabled THEN AccessCodeSave(s, r, resp)
    ELSE AccessCodeSave([s EXCEPT !.codes[r]._auth = s.lock._auth,
                                  !.codes[r]._device = TheLock],
                        r, resp)

\* Lock.add_access_code
AddAccessCode(s, r, resp) ==
    AccessCodeSave([s EXCEPT !.codes[r]._auth = s.lock._auth,
                             !.codes[r]._device = TheLock],
                   r, resp)

-----------------------------------------------------------------------------
(* Lock.get_access_codes and its callers *)

\* Python's binding of a call's arguments to a function's parameters: a
\* keyword naming a parameter that a positional argument already fills, or a
\* parameter left without a value, is a TypeError.
BindArguments(params, nPositional, keywords) ==
    IF \E i \in 1..nPositional : i <= Len(params) /\ params[i] \in keywords
    THEN "TypeError"
    ELSE IF nPositional > Len(params)
            \/ \E i \in (nPositional + 1)..Len(params) : params[i] \notin keywords
    THEN "TypeError"
    ELSE "ok"

\* Lock._get_notifications: the GET, then one decoded Notification per entry.
GetNotifications(s) ==
    IF s.exc # "ok" THEN s
    ELSE IF s.lock._auth = NoAuth THEN Raise(s, "NotAuthenticatedError")
    ELSE AuthRequest(s, CallParams("get", "notifications", <<>>,
                                   [deviceId |-> s.lock.device_id]))

DecodedNotifications(l, resp) ==
    [i \in 1..Len(resp) |->
        [NotificationFromJson(l._auth, resp[i]) EXCEPT !.device_type = Some(l.device_type)]]

\* The keys of the notifications dict built by lines 344-352.
NotificationKeys(user_id, decoded) ==
    { LET id == Val(decoded[i].notification_id)
      IN  SubSeq(id, Len(user_id) + 2, Len(id)) :     \* id[len(user_id) + 1:]
        i \in { j \in 1..Len(decoded) :
                  /\ decoded[j].notification_type = ON_UNLOCK_ACTION
                  /\ StartsWith(Val(decoded[j].notification_id), user_id) } }

\* Lines 356-361 for the code entries from position i on.  notification is the
\* loop variable of lines 346-352 after the loop: its last value.
RECURSIVE DecodeAccessCodes(_, _, _, _, _)
DecodeAccessCodes(s, code_resp, i, keys, notification) ==
    IF s.exc # "ok" \/ i > Len(code_resp) THEN s
    ELSE LET bound == BindArguments(<<"auth", "device", "json">>, 2, {"device"})
         IN  IF bound # "ok" THEN Raise(s, bound)
             ELSE LET r == Len(s.codes) + 1
                      code == AccessCodeFromJson(s.lock._auth, TheLock,
                                                 s.lock.device_id, code_resp[i])
                      attach == Val(code.access_code_id) \in keys
                      shared == { q \in NotifRefs : ~IsFree(s.notifs[q])
                                                    /\ s.notifs[q] = notification }
                      n == IF shared # {} THEN CHOOSE q \in shared : TRUE
                           ELSE FreeNotifRef(s.notifs)
                      s1 == [s EXCEPT
                               !.codes = Append(@, [code EXCEPT !._notification =
                                                      IF attach THEN n ELSE NoRef]),
                               !.notifs = IF attach THEN [@ EXCEPT ![n] = notification]
                                          ELSE @,
                               !.stored = IF attach THEN @ \cup {n} ELSE @,
                               !.ret = Append(@, r)]
                  IN  DecodeAccessCodes(s1, code_resp, i + 1, keys, notification)

\* get_access_codes that fetches the access codes before the notifications.
GetAccessCodesCodesFirst(s, notif_resp, code_resp) ==
    IF s.exc # "ok" THEN s
    ELSE IF s.lock._auth = NoAuth THEN Raise(s, "NotAuthenticatedError")
    ELSE LET s1 == AuthUserId(s)
             s2 == AuthRequest(s1, Call("get", "devices/{id}/storage/accesscode",
                                        s.lock.device_id))
             s3 == GetNotifications(s2)
             decoded == DecodedNotifications(s.lock, notif_resp)
             keys == NotificationKeys(Val(s1.uid), decoded)
             notification == IF Len(decoded) > 0 THEN decoded[Len(decoded)]
                             ELSE FreeSlot
         IN  IF s3.exc # "ok" THEN s3
             ELSE DecodeAccessCodes(s3, code_resp, 1, keys, notification)

GetAccessCodes(s, notif_resp, code_resp) ==
    IF s.exc # "ok" THEN s
    ELSE IF s.lock._auth = NoAuth THEN Raise(s, "NotAuthenticatedError")
    ELSE LET s1 == AuthUserId(s)
             s2 == GetNotifications(s1)
             decoded == DecodedNotifications(s.lock, notif_resp)
             keys == NotificationKeys(Val(s1.uid), decoded)
             notification == IF Len(decoded) > 0 THEN decoded[Len(decoded)]
                             ELSE FreeSlot
             s3 == AuthRequest(s2, Call("get", "devices/{id}/storage/accesscode",
                                        s.lock.device_id))
         IN  IF s3.exc # "ok" THEN s3
             ELSE DecodeAccessCodes(s3, code_resp, 1, keys, notification)

\* The access_codes dict filled by lines 325-327 from the returned list.
RECURSIVE FillAccessCodes(_, _, _)
FillAccessCodes(map, cs, refs) ==
    IF refs = <<>> THEN map
    ELSE FillAccessCodes(
             [map EXCEPT ![Val(cs[Head(refs)].access_code_id)] = Head(refs)],
             cs, Tail(refs))

\* <<"1">>, <<"2">>: the access code ids the server lists
EmptyCodeMap == [i \in {<<"1">>, <<"2">>} |-> NoRef]

RefreshAccessCodes(s, notif_resp, code_resp) ==
    IF s.exc # "ok" THEN s
    ELSE LET s0 == [s EXCEPT !.lock.access_codes = Some(EmptyCodeMap)]
             s1 == GetAccessCodes(s0, notif_resp, code_resp)
         IN  IF s1.exc # "ok" THEN s1
             ELSE [s1 EXCEPT !.lock.access_codes =
                       Some(FillAccessCodes(EmptyCodeMap, s1.codes, s1.ret))]

\* Lock.refresh(*args): include_access_codes is the argument, False when
\* the call gives none.
LockRefresh(s, args, json, notif_resp, code_resp) ==
    LET include_access_codes == IF args = <<>> THEN FALSE ELSE args[1]
        s1 == LockRefreshOnly(s, json)
    IN  IF include_access_codes THEN RefreshAccessCodes(s1, notif_resp, code_resp)
        ELSE s1

\* Schlage.locks: GET devices, then for each entry a fresh Lock whose access
\* codes are refreshed.  The locks returned are new objects.
RECURSIVE RefreshEach(_, _, _, _, _)
RefreshEach(s, lock_resp, i, notif_resp, code_resp) ==
    IF s.exc # "ok" \/ i > Len(lock_resp) THEN s
    ELSE LET fresh == [s EXCEPT !.lock = LockFromJson(TheAuth, lock_resp[i])]
             s1 == RefreshAccessCodes(fresh, notif_resp, code_resp)
         IN  RefreshEach(s1, lock_resp, i + 1, notif_resp, code_resp)

SchlageLocks(s, lock_resp, notif_resp, code_resp) ==
    LET s1 == AuthRequest(s, CallParams("get", "devices", <<>>, [archetype |-> "lock"]))
    IN  RefreshEach(s1, lock_resp, 1, notif_resp, code_resp)

-----------------------------------------------------------------------------
(* What the server answers the two GETs of get_access_codes with *)

NotificationJson(id, type) ==
    [notificationId |-> id, userId |-> USER_ID, deviceId |-> DEVICE_ID,
     notificationDefinitionId |-> type, active |-> TRUE, filterValue |-> "a",
     createdAt |-> "t0", updatedAt |-> "t1"]

\* What GET notifications answers: the on-unlock notifications of the codes
\* "1" and "2", one of another account's user, and an alarm notification.
NotificationResponses ==
    LET N1 == NotificationJson(NotificationIdFor(USER_ID, Some(<<"1">>)), ON_UNLOCK_ACTION)
        N2 == NotificationJson(NotificationIdFor(USER_ID, Some(<<"2">>)), ON_UNLOCK_ACTION)
        NForeign == NotificationJson(NotificationIdFor(<<"v">>, Some(<<"1">>)),
                                     ON_UNLOCK_ACTION)
        NAlarm == NotificationJson(USER_ID \o <<"_", "d">>, "onalarmstate")
    IN  {<<>>, <<N1>>, <<N2, N1>>, <<N1, NAlarm>>, <<NForeign>>}

AccessCodeJson(id, name, notification) ==
    [accesscodeId |-> id, friendlyName |-> name, notification |-> notification,
     disabled |-> 0, accessCode |-> 1234, accessCodeLength |-> 4,
     activationSecs |-> MIN_TIME, expirationSecs |-> MAX_TIME,
     schedule1 |-> [daysOfWeek |-> <<"7", "F">>, startHour |-> 0, startMinute |-> 0,
                    endHour |-> 23, endMinute |-> 59]]

\* What GET devices/{id}/storage/accesscode answers.
AccessCodeResponses ==
    LET A1 == AccessCodeJson(<<"1">>, "a", 0)
        A2 == AccessCodeJson(<<"2">>, "b", 1)
    IN  {<<>>, <<A1>>, <<A1, A2>>}

-----------------------------------------------------------------------------
(* The specification: every action is one call of the library by its user *)

\* Which request of a call the transport fails (0: none), for a call that
\* issues at most n requests.
FailAt(n) == 0..n

Outcome(op, target, s, resp, notif_resp, code_resp) ==
    [op |-> op, target |-> target, reqs |-> s.reqs, exc |-> s.exc, ret |-> s.ret,
     resp |-> resp, notif_resp |-> notif_resp,
     code_resp |-> code_resp]

\* The call returned or raised: its effects on the objects stay.  Notification
\* objects no access code refers to are gone.
Commit(op, target, s, resp, notif_resp, code_resp) ==
    /\ lock' = s.lock
    /\ codes' = s.codes
    /\ notifs' = [r \in NotifRefs |->
                      IF \E i \in 1..Len(s.codes) : s.codes[i]._notification = r
                      THEN s.notifs[r] ELSE FreeSlot]
    /\ uid' = s.uid
    /\ stored' = { r \in s.stored : \E i \in 1..Len(s.codes) : s.codes[i]._notification = r }
    /\ last' = Outcome(op, target, s, resp, notif_resp, code_resp)
    /\ UNCHANGED threadVars

\* A call on an object that is dropped afterwards: only the session is shared.
CommitDetached(op, s, resp, notif_resp, code_resp) ==
    /\ uid' = s.uid
    /\ last' = Outcome(op, 0, s, resp, notif_resp, code_resp)
    /\ UNCHANGED <<lock, codes, notifs, stored, threadVars>>

\* Auth.__init__: no transport client, no callback.  clients are the
\* MQTTClient objects that were connected and whose loop was started, each
\* with the topics it was asked to subscribe; callbacks is _callbacks, keyed
\* by (device_id, topic); subscribed is the history of the subscribe calls
\* that returned.
NoPush == [clients |-> <<>>, callbacks |-> <<>>, subscribed |-> <<>>]

\* No thread is inside a call, and nothing has subscribed.
NoThreads ==
    /\ threads = <<>>
    /\ sent = 0
    /\ entity = None
    /\ held = <<>>
    /\ mqtt = NoPush

\* The objects of a caller that has constructed a lock and called nothing.
NoCalls(deviceTypes) ==
    /\ lock \in {DetachedLock}
                \cup { LockFromJson(TheAuth, LockJson(t, InitialAttributes)) :
                         t \in deviceTypes }
    /\ codes = <<>>
    /\ notifs = [r \in NotifRefs |-> FreeSlot]
    /\ uid = None
    /\ stored = {}
    /\ last = [op |-> "init", target |-> 0, reqs |-> <<>>, exc |-> "ok", ret |-> <<>>,
               resp |-> EmptyDict, notif_resp |-> <<>>,
               code_resp |-> <<>>]

Init == NoCalls(DeviceTypes) /\ NoThreads

CodeRefs == 1..Len(codes)

\* The caller constructs an AccessCode.
CreateAccessCode ==
    /\ Len(codes) < MaxCodes
    /\ LET name == Names[Len(codes) + 1] IN
         /\ codes' = Append(codes,
                [_auth |-> NoAuth, _device |-> NoDevice, _notification |-> NoRef,
                 name |-> name, code |-> <<"1", "2", "3", "4">>, schedule |-> None,
                 notify_on_use |-> FALSE, disabled |-> FALSE,
                 device_id |-> None, access_code_id |-> None, _json |-> FALSE])
         /\ last' = [last EXCEPT !.op = "AccessCode", !.target = Len(codes) + 1,
                                 !.reqs = <<>>, !.exc = "ok", !.ret = <<>>,
                                 !.resp = EmptyDict,
                                 !.notif_resp = <<>>, !.code_resp = <<>>]
    /\ UNCHANGED <<lock, notifs, uid, stored, threadVars>>

\* The caller sets code.notify_on_use.
SetNotifyOnUse ==
    \E r \in CodeRefs, b \in BOOLEAN :
        /\ codes[r].notify_on_use # b
        /\ codes' = [codes EXCEPT ![r].notify_on_use = b]
        /\ last' = [last EXCEPT !.op = "notify_on_use", !.target = r,
                                !.reqs = <<>>, !.exc = "ok", !.ret = <<>>,
                                !.resp = EmptyDict,
                                !.notif_resp = <<>>, !.code_resp = <<>>]
        /\ UNCHANGED <<lock, notifs, uid, stored, threadVars>>

DoSave ==
    \E r \in CodeRefs, fail \in FailAt(3) :
      \E resp \in CommandResponses(codes[r], r) :
        Commit("AccessCode.save", r, AccessCodeSave(Ctx(fail), r, resp),
               resp, <<>>, <<>>)

DoDelete ==
    \E r \in CodeRefs, fail \in FailAt(2) :
        Commit("AccessCode.delete", r, AccessCodeDelete(Ctx(fail), r),
               EmptyDict, <<>>, <<>>)

DoAddAccessCode ==
    \E r \in CodeRefs, fail \in FailAt(3) :
      \E resp \in CommandResponses(codes[r], r) :
        Commit("Lock.add_access_code", r, AddAccessCode(Ctx(fail), r, resp),
               resp, <<>>, <<>>)

DoGetAccessCodes ==
    \E fail \in FailAt(3), nr \in NotificationResponses, cr \in AccessCodeResponses :
        Commit("Lock.get_access_codes", 0, GetAccessCodes(Ctx(fail), nr, cr),
               EmptyDict, nr, cr)

DoRefreshAccessCodes ==
    \E fail \in FailAt(3), nr \in NotificationResponses, cr \in AccessCodeResponses :
        Commit("Lock.refresh_access_codes", 0, RefreshAccessCodes(Ctx(fail), nr, cr),
               EmptyDict, nr, cr)

\* GET devices/{id} answers with the lock as it was, or changed.
DoRefresh ==
    \E fail \in FailAt(4), args \in {<<>>, <<FALSE>>, <<TRUE>>},
       json \in { p \in LockPayloads(lock.device_type) :
                    "beeperEnabled" \in DOMAIN p.attributes },
       nr \in NotificationResponses, cr \in AccessCodeResponses :
        /\ args # <<TRUE>> => nr = <<>> /\ cr = <<>>
        /\ Commit("Lock.refresh", args, LockRefresh(Ctx(fail), args, json, nr, cr),
                  json, nr, cr)

DoLock ==
    \E fail \in FailAt(2), json \in LockPayloads(lock.device_type) :
        Commit("Lock.lock", 0, Toggle(Ctx(fail), 1, json),
               json, <<>>, <<>>)

DoUnlock ==
    \E fail \in FailAt(2), json \in LockPayloads(lock.device_type) :
        Commit("Lock.unlock", 0, Toggle(Ctx(fail), 0, json),
               json, <<>>, <<>>)

DoSetBeeper ==
    \E fail \in FailAt(1), enabled \in BOOLEAN, json \in LockPayloads(lock.device_type) :
        Commit("Lock.set_beeper", 0, SetBeeper(Ctx(fail), enabled, json),
               json, <<>>, <<>>)

DoSetLockAndLeave ==
    \E fail \in FailAt(1), enabled \in BOOLEAN, json \in LockPayloads(lock.device_type) :
        Commit("Lock.set_lock_and_leave", 0, SetLockAndLeave(Ctx(fail), enabled, json),
               json, <<>>, <<>>)

DoSetAutoLockTime ==
    \E fail \in FailAt(1), auto_lock_time \in {0, 1, 15},
       json \in LockPayloads(lock.device_type) :
        Commit("Lock.set_auto_lock_time", auto_lock_time,
               SetAutoLockTime(Ctx(fail), auto_lock_time, json),
               json, <<>>, <<>>)

DoLogs ==
    \E fail \in FailAt(1) :
        Commit("Lock.logs", 0, LockLogs(Ctx(fail)), EmptyDict, <<>>, <<>>)

DoSendCommand ==
    \E fail \in FailAt(1) :
        Commit("Lock.send_command", 0, SendCommand(Ctx(fail), "foo", [bar |-> "baz"]),
               EmptyDict, <<>>, <<>>)

\* Schlage.locks(); GET devices answers no lock, one lock, or two.
DoSchlageLocks ==
    \E fail \in FailAt(6), nr \in NotificationResponses, cr \in AccessCodeResponses :
      \E lock_resp \in {<<>>, <<LockJson(WIFI_TYPE, InitialAttributes)>>,
                        <<LockJson(BLE_TYPE, InitialAttributes)>>,
                        <<LockJson(WIFI_TYPE, InitialAttributes),
                          LockJson(BLE_TYPE, InitialAttributes)>>} :
        /\ lock_resp = <<>> => nr = <<>> /\ cr = <<>>
        /\ CommitDetached("Schlage.locks", SchlageLocks(Ctx(fail), lock_resp, nr, cr),
                          lock_resp, nr, cr)

\* Notification(): a notification no session was given to.
DetachedNotification ==
    [_auth |-> NoAuth, notification_id |-> Some(<<>>), user_id |-> None,
     device_id |-> None, device_type |-> None, notification_type |-> "__unknown__",
     active |-> FALSE, filter_value |-> None, created_at |-> None]

WithNotification(s, n) == [s EXCEPT !.notifs[1] = n]

DoNotificationSave ==
    \E fail \in FailAt(1) :
        CommitDetached("Notification.save",
                       NotificationSave(WithNotification(Ctx(fail), DetachedNotification), 1),
                       EmptyDict, <<>>, <<>>)

DoNotificationDelete ==
    \E fail \in FailAt(1) :
        CommitDetached("Notification.delete",
                       NotificationDelete(WithNotification(Ctx(fail), DetachedNotification), 1),
                       EmptyDict, <<>>, <<>>)

\* The calls on access codes.
CodeCalls ==
    \/ CreateAccessCode
    \/ SetNotifyOnUse
    \/ DoSave
    \/ DoDelete
    \/ DoAddAccessCode

\* The calls that fetch the access codes of a lock.
FetchCalls ==
    \/ DoGetAccessCodes
    \/ DoRefreshAccessCodes
    \/ DoRefresh

Next == CodeCalls

\* A caller of the access codes of one lock.
Spec == Init /\ [][Next]_vars

\* A caller that fetches the access codes.
NextFetch == FetchCalls \/ DoSchlageLocks

SpecFetch == Init /\ [][NextFetch]_vars

\* A caller whose lock was constructed without a session.
NextDetached ==
    \/ CodeCalls
    \/ FetchCalls
    \/ DoLock
    \/ DoUnlock
    \/ DoSetBeeper
    \/ DoSetLockAndLeave
    \/ DoSetAutoLockTime
    \/ DoLogs
    \/ DoSendCommand
    \/ DoNotificationSave
    \/ DoNotificationDelete

InitDetached == Init /\ lock = DetachedLock

SpecDetached == InitDetached /\ [][NextDetached]_vars

NextLock ==
    \/ DoLock
    \/ DoUnlock
    \/ DoSetBeeper
    \/ DoSetLockAndLeave
    \/ DoSetAutoLockTime
    \/ DoRefresh
    \/ DoRefreshAccessCodes

\* A caller that operates a lock of its account.
\* A lock of the account, of a device type with each of the three prefixes or
\* with none of them.
InitLock ==
    /\ NoCalls(DeviceTypes \cup {<<"b", "e", "4", "9", "9">>, <<"f", "e", "7", "8", "9", "z">>,
                               <<"b", "e", "4">>})
    /\ NoThreads
    /\ lock._auth # NoAuth

SpecLock == InitLock /\ [][NextLock]_vars

\* Device payloads to decode: the attributes of an available lock, of an
\* unavailable one, and of locks that report only a part, each with the
\* metadata of the last change of the lock state (or none) and with or
\* without the users of the lock.
DecodePayloads ==
    LET metadata == { [actionType |-> a, UUID |-> u, name |-> n] :
                        a \in {"thumbTurn", "1touchLocking", "accesscode", "AppleHomeNFC",
                               "virtualKey", "periodicDeepQuery"},
                        u \in {None, Some("u1"), Some("u9")},
                        n \in {None, Some("X")} }
        attributes == {InitialAttributes, [modelName |-> "m"], [batteryLevel |-> 50],
                       [lockState |-> 2], [lockState |-> 0, mainFirmwareVersion |-> "9"]}
        withMetadata == attributes
                        \cup { [lockStateMetadata |-> m] @@ InitialAttributes : m \in metadata }
        users == <<[friendlyName |-> "asdf", email |-> "asdf@asdf.com", identityId |-> "u1"],
                   [friendlyName |-> "foo", email |-> "foo@bar.xyz", identityId |-> "u2"]>>
    IN  { LockJson(WIFI_TYPE, a) : a \in withMetadata }
        \cup { [users |-> users] @@ LockJson(WIFI_TYPE, a) : a \in withMetadata }

\* The caller decodes a device payload: lock = Lock.from_json(auth, json).
DoFromJson ==
    \E json \in DecodePayloads :
        Commit("Lock.from_json", 0, [Ctx(0) EXCEPT !.lock = LockFromJson(TheAuth, json)],
               json, <<>>, <<>>)

\* The log entries a caller passes to keypad_disabled, and the entries the
\* server answers GET devices/{id}/logs with.
LogInputs ==
    [entries |-> { [created_at |-> c, message |-> m] :
                     c \in {0, 1},
                     m \in {"Keypad disabled invalid code", "Unlocked by keypad"} },
     jsons |-> { [createdAt |-> c, message |-> [eventCode |-> e]] :
                   c \in {0, 1}, e \in {2, 11, 13} }]

\* The caller asks whether the keypad is disabled: lock.keypad_disabled(logs)
\* with a list of entries, or lock.keypad_disabled(), which fetches the list.
DoKeypadDisabled ==
    \/ \E logs \in UNION { [1..n -> LogInputs.entries] : n \in 0..MaxLogs } :
           Commit("Lock.keypad_disabled", Some(logs),
                  KeypadDisabled(Ctx(0), Some(logs), <<>>), <<>>, <<>>, <<>>)
    \/ \E fail \in FailAt(1),
          log_resp \in UNION { [1..n -> LogInputs.jsons] : n \in 0..MaxLogs } :
           /\ fail # 0 => log_resp = <<>>
           /\ Commit("Lock.keypad_disabled", None,
                     KeypadDisabled(Ctx(fail), None, log_resp), log_resp, <<>>, <<>>)

\* The caller asks who changed the lock last: lock.last_changed_by().
DoLastChangedBy ==
    Commit("Lock.last_changed_by", 0, [Ctx(0) EXCEPT !.ret = LastChangedBy(lock)],
           EmptyDict, <<>>, <<>>)

\* A caller that decodes payloads and asks the lock about its state.
InitDecode == NoCalls({WIFI_TYPE}) /\ NoThreads /\ lock._auth # NoAuth

\* redact that leaves the values of the nested dicts as they are.
redactTopLevel(json, allowed) ==
    LET keys == { Head(allowed[i]) : i \in 1..Len(allowed) }
    IN  [k \in DOMAIN json |->
            IF json[k].t = "dict" \/ k \in keys THEN json[k]
            ELSE IF json[k].t = "list"
            THEN [t |-> "list", v |-> <<[t |-> "scalar", v |-> "<REDACTED>"]>>]
            ELSE [t |-> "scalar", v |-> "<REDACTED>"]]

\* redact(json, allowed=allowed).  A JSON value is tagged with its kind: a
\* dict (a function of its keys), a list or a scalar; json itself is a dict.
\* An entry of allowed is the sequence of the segments its text has between
\* the "."; partition(".") gives the first segment and the rest.  deepcopy
\* of a value is the value.
RECURSIVE redact(_, _)
redact(json, allowed) ==
    IF Len(allowed) = 1 /\ allowed[1] = <<"*">> THEN json
    ELSE LET allowed_here(k) ==
                 LET at == SelectSeq(allowed, LAMBDA allow : Head(allow) = k)
                 IN  [i \in 1..Len(at) |->
                         IF Tail(at[i]) = <<>> THEN <<"*">> ELSE Tail(at[i])]
         IN  [k \in DOMAIN json |->
                 IF json[k].t = "dict"
                 THEN [t |-> "dict", v |-> redact(json[k].v, allowed_here(k))]
                 ELSE IF allowed_here(k) # <<>> THEN json[k]
                 ELSE IF json[k].t = "list"
                 THEN [t |-> "list", v |-> <<[t |-> "scalar", v |-> "<REDACTED>"]>>]
                 ELSE [t |-> "scalar", v |-> "<REDACTED>"]]

\* Lock.get_diagnostics: redact(self._json, allowed=[...])
GetDiagnostics(json) ==
    LET attributes == <<"accessCodeLength", "actAlarmBuzzerEnabled", "actAlarmState",
                        "actuationCurrentMax", "alarmSelection", "alarmSensitivity",
                        "alarmState", "autoLockTime", "batteryChangeDate", "batteryLevel",
                        "batteryLowState", "batterySaverConfig", "batterySaverState",
                        "beeperEnabled", "bleFirmwareVersion", "firmwareUpdate",
                        "homePosCurrentMax", "keypadFirmwareVersion", "lockAndLeaveEnabled",
                        "lockState", "lockStateMetadata", "mainFirmwareVersion", "mode",
                        "modelName", "periodicDeepQueryTimeSetting", "psPollEnabled",
                        "timezone", "wifiFirmwareVersion", "wifiRssi">>
        top == <<"connected", "connectivityUpdated", "created", "devicetypeId",
                 "lastUpdated", "modelName", "name", "role", "timezone">>
    IN  redact(json, [i \in 1..Len(attributes) |-> <<"attributes", attributes[i]>>]
                     \o [i \in 1..Len(top) |-> <<top[i]>>])

\* The raw JSON of locks (the payload of the tests, in part): scalars, lists
\* and dicts, on the allow-list of get_diagnostics and not on it, at the top
\* and nested.  public is what the allow-list lets through, secret what it
\* holds back.
DiagnosticsInputs ==
    LET S(x) == [t |-> "scalar", v |-> x]
        L(x) == [t |-> "list", v |-> x]
        D(x) == [t |-> "dict", v |-> x]
        RawJson(public, secret) ==
            [CAT |-> S(secret.deviceKey),
             attributes |-> D([CAT |-> S(secret.deviceKey),
                               lockState |-> S(public.lockState),
                               batterySaverConfig |->
                                   D([activePeriod |-> L(public.activePeriod),
                                      enabled |-> S(0)]),
                               diagnostics |-> D([lastCode |-> S(secret.code),
                                                  history |-> L(<<S(secret.code)>>)]),
                               lockStateMetadata |->
                                   D([actionType |-> S(public.actionType),
                                      name |-> S("X")]),
                               name |-> S(public.name),
                               serialNumber |-> S(secret.serialNumber)]),
             connected |-> S(TRUE),
             deviceId |-> S(secret.deviceId),
             devicetypeId |-> S("be489wifi"),
             name |-> S(public.name),
             relatedDevices |-> L(<<D([deviceId |-> S(secret.deviceId)])>>),
             serialNumber |-> S(secret.serialNumber),
             users |-> L(<<>>)]
    IN  { [public |-> public, secret |-> secret, json |-> RawJson(public, secret)] :
            public \in [name : {"Door Lock", "Back"}, lockState : {0, 1},
                        actionType : {"thumbTurn", "accesscode"},
                        activePeriod : {<<>>, <<S(1)>>}],
            secret \in [deviceId : {"d1", "d2"}, serialNumber : {"s1", "s2"},
                        code : {"1234", "9999"}, deviceKey : {"k1", "k2"}] }

\* The caller asks a lock decoded from a payload for its diagnostics:
\* Lock.from_json(auth, json).get_diagnostics().
DoGetDiagnostics ==
    \E input \in DiagnosticsInputs :
        Commit("Lock.get_diagnostics", input,
               [Ctx(0) EXCEPT !.ret = GetDiagnostics(input.json)],
               input.json, <<>>, <<>>)

\* A caller that asks locks for their diagnostics.
SpecDiagnostics == InitDecode /\ [][DoGetDiagnostics]_vars

NextDecode ==
    \/ DoFromJson
    \/ DoLastChangedBy
    \/ DoKeypadDisabled

SpecDecode == InitDecode /\ [][NextDecode]_vars

-----------------------------------------------------------------------------
(* Requests, as the properties below read them from the log of a call *)

IsCommand(q, name) ==
    /\ q.method = "post"
    /\ q.url = "devices/{id}/commands"
    /\ q.id = DEVICE_ID
    /\ "json" \in DOMAIN q.kwargs
    /\ q.kwargs.json.name = name

IsUserIdGet(q) == q.method = "get" /\ q.url = "users/@me"

IsNotificationSave(q) ==
    q.url = "notifications/{id}" /\ q.method \in {"post", "put"} /\ Len(q.args) = 1

IsNotificationDelete(q) == q.url = "notifications/{id}" /\ q.method = "delete"

IsNotificationsGet(q) ==
    /\ q.method = "get"
    /\ q.url = "notifications"
    /\ "params" \in DOMAIN q.kwargs
    /\ q.kwargs.params = [deviceId |-> DEVICE_ID]

IsAccessCodesGet(q) ==
    q.method = "get" /\ q.url = "devices/{id}/storage/accesscode" /\ q.id = DEVICE_ID

LastOf(seq) == seq[Len(seq)]

SaveOps == {"AccessCode.save", "Lock.add_access_code"}

Rejected(o) == o.exc = "NotAuthenticatedError" /\ o.reqs = <<>>

-----------------------------------------------------------------------------
(* Detached entities *)

LockNetworkOps ==
    {"Lock.refresh", "Lock.lock", "Lock.unlock", "Lock.logs", "Lock.get_access_codes",
     "Lock.refresh_access_codes", "Lock.send_command", "Lock.set_beeper",
     "Lock.set_lock_and_leave", "Lock.set_auto_lock_time"}

\* C1: every network-backed call on an entity whose session is None (the ten
\* calls on a Lock, set_auto_lock_time with a valid value; save and delete on
\* an AccessCode; save and delete on a Notification) raises
\* NotAuthenticatedError and issues no request.
C1_DetachedCallsRejected ==
    [][LET o == last'
       IN  /\ (/\ o.op \in LockNetworkOps
               /\ lock._auth = NoAuth
               /\ o.op = "Lock.set_auto_lock_time" => o.target \in AUTO_LOCK_TIMES)
              => Rejected(o)
           /\ (/\ o.op \in {"AccessCode.save", "AccessCode.delete"}
               /\ codes[o.target]._auth = NoAuth)
              => Rejected(o)
           /\ o.op \in {"Notification.save", "Notification.delete"}
              => DetachedNotification._auth = NoAuth /\ Rejected(o)
      ]_vars

\* A valid auto-lock time was set on a lock without a session, and rejected.
C1_Witness ==
    /\ last.op = "Lock.set_auto_lock_time"
    /\ last.target = 15
    /\ lock._auth = NoAuth
    /\ Rejected(last)

-----------------------------------------------------------------------------
(* AccessCode.delete *)

Cleared(c) ==
    /\ c._auth = NoAuth
    /\ c._json = FALSE
    /\ IsNone(c.access_code_id)
    /\ c.disabled

\* C2: a successful delete() of a code with a cached notification sends the
\* 'deleteaccesscode' command, then deletes the notification, once each and in
\* that order, and only then clears _auth, _json, access_code_id and sets
\* disabled; a delete() that raised has cleared nothing.
C2_DeleteOrder ==
    [][LET o == last'
           r == o.target
       IN  (o.op = "AccessCode.delete" /\ codes[r]._auth # NoAuth) =>
             /\ (o.exc = "ok" /\ codes[r]._notification # NoRef) =>
                  /\ Len(o.reqs) = 2
                  /\ IsCommand(o.reqs[1], "deleteaccesscode")
                  /\ IsNotificationDelete(o.reqs[2])
                  /\ o.reqs[2].id = FmtOpt(notifs[codes[r]._notification].notification_id)
                  /\ Cleared(codes'[r])
             /\ o.exc # "ok" => codes'[r] = codes[r]
      ]_vars

\* A code with a stored notification was deleted.
C2_Witness ==
    /\ last.op = "AccessCode.delete"
    /\ last.exc = "ok"
    /\ Len(last.reqs) = 2
    /\ IsNotificationDelete(last.reqs[2])
    /\ Cleared(codes[last.target])

\* A code on which delete() has succeeded and that was not added since.
Deleted(c) == c.disabled /\ c._auth = NoAuth

\* C3, as the specification states it: once delete() has succeeded the session
\* of the code stays None, whatever is called with it later.
C3_PermanentlyInert ==
    \A r \in CodeRefs : codes[r].disabled => codes[r]._auth = NoAuth

\* C3, amended: a deleted code rejects save() and delete() without a request
\* and unchanged, and only Lock.add_access_code of a lock with a session gives
\* it a session again; that call does, and sends 'addaccesscode' for it.
C3_InertUntilAdded ==
    [][LET o == last'
           r == o.target
       IN  /\ (o.op \in {"AccessCode.save", "AccessCode.delete"} /\ Deleted(codes[r]))
              => Rejected(o) /\ codes' = codes
           /\ \A q \in CodeRefs :
                (Deleted(codes[q]) /\ codes'[q]._auth # NoAuth)
                => o.op = "Lock.add_access_code" /\ q = r
           /\ (o.op = "Lock.add_access_code" /\ Deleted(codes[r]) /\ lock._auth # NoAuth)
              => /\ codes'[r]._auth = lock._auth
                 /\ Len(o.reqs) >= 1
                 /\ IsCommand(o.reqs[1], "addaccesscode")
      ]_vars

\* A deleted code was added to the lock again and saved.
C3_Witness ==
    /\ last.op = "Lock.add_access_code"
    /\ last.exc = "ok"
    /\ codes[last.target].disabled
    /\ codes[last.target]._auth = TheAuth

-----------------------------------------------------------------------------
(* AccessCode.save *)

\* The command of a save() was answered.
CommandAnswered(o) == Len(o.reqs) >= 2

-----------------------------------------------------------------------------
(* Lock.get_access_codes and its callers *)

\* The ids "{user_id}_{code id}" of the on-unlock notifications the server listed.
ListedFor(notif_resp, code_json) ==
    { i \in 1..Len(notif_resp) :
        /\ notif_resp[i].notificationDefinitionId = ON_UNLOCK_ACTION
        /\ notif_resp[i].notificationId = USER_ID \o <<"_">> \o code_json.accesscodeId }

\* The transport failed no request of the call.
Answered(o) == o.exc # "UnknownError"

\* C8, as the specification states it: get_access_codes() returns every access
\* code the server lists, each with the on-unlock notification of id
\* "{user_id}_{code id}" attached when the server lists one, and with none
\* otherwise.
C8_MatchingNotificationAttached ==
    (last.op = "Lock.get_access_codes" /\ lock._auth # NoAuth /\ Answered(last)) =>
        /\ last.exc = "ok"
        /\ Len(last.ret) = Len(last.code_resp)
        /\ \A i \in 1..Len(last.ret) :
             LET c == codes[last.ret[i]]
                 listed == ListedFor(last.notif_resp, last.code_resp[i])
             IN  /\ c.access_code_id = Some(last.code_resp[i].accesscodeId)
                 /\ IF listed = {} THEN c._notification = NoRef
                    ELSE /\ c._notification # NoRef
                         /\ notifs[c._notification].notification_id
                              = Some(USER_ID \o <<"_">> \o Val(c.access_code_id))

\* C9, as the specification states it: get_access_codes() hands out the access
\* code whose notification the server lists, and save() on it sends a PUT to
\* the notification "{user_id}_{code id}".
C9_FetchedCodeSaveUpdates ==
    (/\ last.op = "Lock.get_access_codes"
     /\ lock._auth # NoAuth
     /\ Answered(last)
     /\ Len(last.code_resp) >= 1
     /\ ListedFor(last.notif_resp, last.code_resp[1]) # {}) =>
        /\ last.exc = "ok"
        /\ Len(last.ret) >= 1
        /\ LET r == last.ret[1]
               s == AccessCodeSave(Ctx(0), r, EmptyDict)
               q == LastOf(s.reqs)
           IN  /\ s.exc = "ok"
               /\ IsNotificationSave(q)
               /\ q.method = "put"
               /\ q.id = USER_ID \o <<"_">> \o last.code_resp[1].accesscodeId

FetchOps ==
    {"Lock.get_access_codes", "Lock.refresh_access_codes", "Lock.refresh", "Schlage.locks"}

\* The two GETs of get_access_codes among the requests of a call.
Fetches(reqs) ==
    SelectSeq(reqs, LAMBDA q : IsNotificationsGet(q) \/ IsAccessCodesGet(q))

\* How many locks a call that returned has fetched the access codes of.
LocksFetched(o) ==
    IF o.op = "Schlage.locks" THEN Len(o.resp)
    ELSE IF o.op = "Lock.refresh" THEN IF o.target = <<TRUE>> THEN 1 ELSE 0
    ELSE 1

\* C10: get_access_codes(), refresh_access_codes(), refresh() with the access
\* codes and Schlage.locks() for each lock issue the GET of the device's
\* notifications, then the GET of its access codes: never the second without
\* the first before it, and one of each per lock when the call returns.
C10_NotificationsBeforeCodes ==
    last.op \in FetchOps =>
        LET f == Fetches(last.reqs)
        IN  /\ \A i \in 1..Len(f) :
                 IF i % 2 = 1 THEN IsNotificationsGet(f[i]) ELSE IsAccessCodesGet(f[i])
            /\ last.op # "Schlage.locks" => Len(f) <= 2
            /\ last.exc \in {"ok", "TypeError"} => Len(f) % 2 = 0
            /\ last.exc = "ok" => Len(f) = 2 * LocksFetched(last)

\* Schlage.locks() has fetched the access codes of two locks.
C10_Witness ==
    /\ last.op = "Schlage.locks"
    /\ last.exc = "ok"
    /\ Len(last.resp) = 2
    /\ Len(Fetches(last.reqs)) = 4

-----------------------------------------------------------------------------
(* Threads that share one session and one instance: each calls           *)
(* Mutable._update_with on the instance, or reads Auth.user_id           *)

\* How many threads call into the same instance.
MaxThreads == 2

Threads == 1..MaxThreads

\* fields(new_obj), in declaration order: _mu and _auth of Mutable, then the
\* fields of the subclass (two of them here, name and model_name of a Lock).
MutableFields == <<"_mu", "_auth", "name", "model_name">>

\* from_json in thread t: a fresh instance, with a fresh mutex by the
\* default_factory of _mu. The mutex of the live instance is 0, the one that
\* from_json() in thread t constructs is t.
\* Thread t calls refresh, _put_attributes or Notification.save: after the
\* session check the request is sent, and the thread waits for the answer.
MergeRequest(t) ==
    /\ threads[t].pc = "idle"
    /\ entity._auth # NoAuth
    /\ threads' = [threads EXCEPT ![t].pc = "request"]
    /\ UNCHANGED <<entity, held>>

\* The answer has arrived and is the argument of _update_with: the session
\* check and from_json.
MergeDecode(t) ==
    /\ threads[t].pc = "request"
    /\ entity._auth # NoAuth
    /\ threads' = [threads EXCEPT ![t].pc = "with",
                                  ![t].new_obj = [_mu |-> t, _auth |-> entity._auth,
                                                 name |-> Names[t],
                                                 model_name |-> Names[t]]]
    /\ UNCHANGED <<entity, held>>

\* with self._mu: the attribute is read, then the mutex it names is acquired.
MergeLoadMutex(t) ==
    /\ threads[t].pc = "with"
    /\ threads' = [threads EXCEPT ![t].pc = "acquire", ![t].mu = entity._mu]
    /\ UNCHANGED <<entity, held>>

MergeAcquire(t) ==
    /\ threads[t].pc = "acquire"
    /\ held[threads[t].mu] = 0
    /\ held' = [held EXCEPT ![threads[t].mu] = t]
    /\ threads' = [threads EXCEPT ![t].pc = "copy", ![t].i = 1]
    /\ UNCHANGED entity

\* One iteration of the loop: setattr(self, f.name, getattr(new_obj, f.name)).
MergeCopyField(t) ==
    /\ threads[t].pc = "copy"
    /\ threads[t].i <= Len(MutableFields)
    /\ LET f == MutableFields[threads[t].i]
       IN  entity' = [entity EXCEPT ![f] = threads[t].new_obj[f]]
    /\ threads' = [threads EXCEPT ![t].i = @ + 1]
    /\ UNCHANGED held

\* A with statement that leaves its mutex locked.
MergeReleaseKeepingMutex(t) ==
    /\ threads[t].pc = "copy"
    /\ threads[t].i > Len(MutableFields)
    /\ threads' = [threads EXCEPT ![t].pc = "released"]
    /\ UNCHANGED <<entity, held>>

\* The loop is over: the with statement releases the mutex it acquired.
MergeRelease(t) ==
    /\ threads[t].pc = "copy"
    /\ threads[t].i > Len(MutableFields)
    /\ held' = [held EXCEPT ![threads[t].mu] = 0]
    /\ threads' = [threads EXCEPT ![t].pc = "released"]
    /\ UNCHANGED entity

\* refresh(include_access_codes=True): after the merge the first request of
\* refresh_access_codes is sent, and the thread waits for the answer.
MergeFurtherRequest(t) ==
    /\ threads[t].pc = "released"
    /\ threads' = [threads EXCEPT ![t].pc = "further"]
    /\ UNCHANGED <<entity, held>>

\* The call returns: after the merge, or after the requests that follow it.
MergeReturn(t) ==
    /\ threads[t].pc \in {"released", "further"}
    /\ threads' = [threads EXCEPT ![t].pc = "done"]
    /\ UNCHANGED <<entity, held>>

\* if self._user_id is None
ReadCheck(t) ==
    /\ threads[t].pc = "idle"
    /\ threads' = [threads EXCEPT ![t].pc = IF IsNone(uid) THEN "get" ELSE "return"]
    /\ UNCHANGED <<uid, sent>>

\* self._get_user_id(): the GET users/@me is sent, and answered or failed.
ReadGetUserId(t) ==
    /\ threads[t].pc = "get"
    /\ sent' = sent + 1
    /\ \E answered \in BOOLEAN :
         threads' = [threads EXCEPT ![t].pc = IF answered THEN "store" ELSE "done",
                                    ![t].ret = IF answered THEN Some(USER_ID)
                                               ELSE Some(<<"UnknownError">>)]
    /\ UNCHANGED uid

\* self._user_id = <the value fetched>
ReadStore(t) ==
    /\ threads[t].pc = "store"
    /\ uid' = threads[t].ret
    /\ threads' = [threads EXCEPT ![t].pc = "return"]
    /\ UNCHANGED sent

\* return self._user_id
ReadReturn(t) ==
    /\ threads[t].pc = "return"
    /\ threads' = [threads EXCEPT ![t].pc = "done", ![t].ret = uid]
    /\ UNCHANGED <<uid, sent>>

NextThreads ==
    \E t \in Threads :
        \/ /\ \/ MergeRequest(t)
              \/ MergeDecode(t)
              \/ MergeLoadMutex(t)
              \/ MergeAcquire(t)
              \/ MergeCopyField(t)
              \/ MergeRelease(t)
              \/ MergeFurtherRequest(t)
              \/ MergeReturn(t)
           /\ UNCHANGED <<lock, codes, notifs, uid, stored, last, sent, mqtt>>
        \/ /\ \/ ReadCheck(t)
              \/ ReadGetUserId(t)
              \/ ReadStore(t)
              \/ ReadReturn(t)
           /\ UNCHANGED <<lock, codes, notifs, stored, last, entity, held, mqtt>>

\* Threads that call into the same objects, in any interleaving.
InitThreads ==
    /\ NoCalls({})
    /\ threads = [t \in Threads |->
                      [pc |-> "idle", new_obj |-> None, mu |-> 0, i |-> 0, ret |-> None]]
    /\ sent = 0
    /\ entity = [_mu |-> 0, _auth |-> TheAuth, name |-> "z", model_name |-> "z"]
    /\ held = [m \in 0..MaxThreads |-> 0]
    /\ mqtt = NoPush

SpecThreads == InitThreads /\ [][NextThreads]_vars

\* C11, as the specification states it: at no time are two threads inside the
\* field-copy section of _update_with of the same instance.
C11_MergesExclusive ==
    \A t, u \in Threads : (threads[t].pc = "copy" /\ threads[u].pc = "copy") => t = u

\* C20, as the specification states it: however the reads of auth.user_id by
\* several threads interleave, one GET users/@me is issued in total (while
\* every GET issued is answered).
C20_SingleFetch ==
    (\A t \in Threads : threads[t].ret # Some(<<"UnknownError">>)) => sent <= 1

-----------------------------------------------------------------------------
(* The operations that change a lock *)

IsAttributePut(q) ==
    /\ q.method = "put"
    /\ q.url = "devices/{id}"
    /\ q.id = DEVICE_ID
    /\ DOMAIN q.kwargs = {"json"}
    /\ DOMAIN q.kwargs.json = {"attributes"}

ToggleOps == {"Lock.lock", "Lock.unlock"}

SetterOps == {"Lock.set_beeper", "Lock.set_lock_and_leave", "Lock.set_auto_lock_time"}

\* The device type starts with be489, be499 or fe789.
HasWifiPrefix(device_type) ==
    /\ Len(device_type) >= 5
    /\ SubSeq(device_type, 1, 5) \in {<<"b", "e", "4", "8", "9">>, <<"b", "e", "4", "9", "9">>,
                                      <<"f", "e", "7", "8", "9">>}

\* The requests of a call to the device, the lookup of the user id left out.
DeviceRequests(o) == SelectSeq(o.reqs, LAMBDA q : ~IsUserIdGet(q))

OnlyAttributePuts(o) ==
    \A i \in 1..Len(DeviceRequests(o)) : IsAttributePut(DeviceRequests(o)[i])

OnlyCommandPosts(o) ==
    \A i \in 1..Len(DeviceRequests(o)) :
        /\ DeviceRequests(o)[i].method = "post"
        /\ DeviceRequests(o)[i].url = "devices/{id}/commands"

\* C12, as the specification states it: every mutating operation of a lock
\* whose device type starts with be489, be499 or fe789 uses the attribute PUT
\* on devices/{id}, and every mutating operation of any other lock the command
\* POST on devices/{id}/commands.
C12_PrefixSelectsEveryPath ==
    [][LET o == last'
       IN  o.op \in ToggleOps \cup SetterOps =>
             IF HasWifiPrefix(lock.device_type) THEN OnlyAttributePuts(o)
             ELSE OnlyCommandPosts(o)
      ]_vars

\* C12, amended: the prefix of the device type selects the path of lock() and
\* unlock() only (attribute PUT for be489, be499, fe789; command POST
\* otherwise); set_beeper, set_lock_and_leave and set_auto_lock_time use the
\* attribute PUT on devices/{id} whatever the device type.
C12_PrefixSelectsTogglePath ==
    [][LET o == last'
       IN  /\ o.op \in ToggleOps =>
                IF HasWifiPrefix(lock.device_type) THEN OnlyAttributePuts(o)
                ELSE OnlyCommandPosts(o)
           /\ o.op \in SetterOps => OnlyAttributePuts(o)
      ]_vars

\* The beeper of a BLE-only lock was set: an attribute PUT.
C12_Witness ==
    /\ last.op = "Lock.set_beeper"
    /\ last.exc = "ok"
    /\ lock.device_type = BLE_TYPE
    /\ Len(last.reqs) = 1
    /\ IsAttributePut(last.reqs[1])

\* The attribute-PUT operations: lock and unlock of a lock with one of the
\* three prefixes, and the setters (set_auto_lock_time with a valid value).
IsAttributeOp(o, l) ==
    \/ o.op \in ToggleOps /\ HasWifiPrefix(l.device_type)
    \/ o.op \in {"Lock.set_beeper", "Lock.set_lock_and_leave"}
    \/ o.op = "Lock.set_auto_lock_time" /\ o.target \in AUTO_LOCK_TIMES

\* The attribute dicts an operation may send.
AttributePatches(o) ==
    CASE o.op = "Lock.lock" -> {[lockState |-> 1]}
      [] o.op = "Lock.unlock" -> {[lockState |-> 0]}
      [] o.op = "Lock.set_beeper" -> {[beeperEnabled |-> 0], [beeperEnabled |-> 1]}
      [] o.op = "Lock.set_lock_and_leave" ->
            {[lockAndLeaveEnabled |-> 0], [lockAndLeaveEnabled |-> 1]}
      [] o.op = "Lock.set_auto_lock_time" -> {[autoLockTime |-> o.target]}

\* C13: each attribute-PUT operation issues exactly one PUT devices/{id}
\* whose body holds only the one attribute being changed; when it returns the
\* fields of the lock are those decoded from the response, not the requested
\* value: a response with lockState 2 after lock() leaves is_locked False and
\* is_jammed True.
C13_PutThenServerState ==
    [][LET o == last'
       IN  IsAttributeOp(o, lock) =>
             /\ Len(o.reqs) = 1
             /\ IsAttributePut(o.reqs[1])
             /\ o.reqs[1].kwargs.json.attributes \in AttributePatches(o)
             /\ o.exc = "ok" =>
                  /\ lock' = LockFromJson(lock._auth, o.resp)
                  /\ "lockState" \in DOMAIN o.resp.attributes =>
                       /\ lock'.is_locked = Some(o.resp.attributes.lockState = 1)
                       /\ lock'.is_jammed = Some(o.resp.attributes.lockState = 2)
                  /\ "beeperEnabled" \in DOMAIN o.resp.attributes =>
                       lock'.beeper_enabled = (o.resp.attributes.beeperEnabled = 1)
                  /\ "autoLockTime" \in DOMAIN o.resp.attributes =>
                       lock'.auto_lock_time = o.resp.attributes.autoLockTime
      ]_vars

\* lock() on a WiFi lock was answered with lockState 2: the lock is jammed,
\* not locked.
C13_Witness ==
    /\ last.op = "Lock.lock"
    /\ last.exc = "ok"
    /\ HasWifiPrefix(lock.device_type)
    /\ last.resp.attributes.lockState = 2
    /\ lock.is_locked = Some(FALSE)
    /\ lock.is_jammed = Some(TRUE)

\* C14: lock() and unlock() on a lock without one of the three prefixes (a
\* BLE-only lock, be479) send one POST devices/{id}/commands named
\* 'changelockstate' with data {CAT, deviceId, state, userId}, as the last
\* request and after at most the lookup of the user id; no merge and no GET of
\* the device follow; on success is_locked is (state = 1) and is_jammed False
\* and every other field of the lock is as before; when the call raises the
\* lock is as before.
C14_CommandThenLocalState ==
    [][LET o == last'
           d == DeviceRequests(o)
           state == IF o.op = "Lock.lock" THEN 1 ELSE 0
       IN  (o.op \in ToggleOps /\ ~HasWifiPrefix(lock.device_type)) =>
             /\ Len(d) <= 1
             /\ Len(o.reqs) - Len(d) = IF IsNone(uid) THEN 1 ELSE 0
             /\ Len(d) = 1 =>
                  /\ d[1] = LastOf(o.reqs)
                  /\ IsCommand(d[1], "changelockstate")
                  /\ d[1].kwargs.json.data = [CAT |-> lock._cat, deviceId |-> lock.device_id,
                                              state |-> state, userId |-> USER_ID]
             /\ o.exc = "ok" =>
                  /\ Len(d) = 1
                  /\ lock' = [lock EXCEPT !.is_locked = Some(state = 1),
                                          !.is_jammed = Some(FALSE)]
             /\ o.exc # "ok" => lock' = lock
      ]_vars

\* A BLE-only lock that was locked has been unlocked by one command.
C14_Witness ==
    /\ last.op = "Lock.unlock"
    /\ last.exc = "ok"
    /\ lock.device_type = BLE_TYPE
    /\ Len(last.reqs) = 1
    /\ IsCommand(last.reqs[1], "changelockstate")
    /\ last.reqs[1].kwargs.json.data.state = 0
    /\ lock.is_locked = Some(FALSE)
    /\ lock.beeper_enabled

\* C15: set_auto_lock_time(t) with t outside {0, 5, 15, 30, 60, 120, 240, 300}
\* raises ValueError, issues no request and leaves every field of the lock as
\* it was; with t inside the set it issues the PUT of autoLockTime = t.
C15_AutoLockTimeValidated ==
    [][LET o == last'
       IN  o.op = "Lock.set_auto_lock_time" =>
             IF o.target \notin {0, 5, 15, 30, 60, 120, 240, 300}
             THEN /\ o.exc = "ValueError"
                  /\ o.reqs = <<>>
                  /\ lock' = lock
             ELSE /\ o.exc # "ValueError"
                  /\ Len(o.reqs) = 1
                  /\ IsAttributePut(o.reqs[1])
                  /\ o.reqs[1].kwargs.json.attributes = [autoLockTime |-> o.target]
      ]_vars

\* An auto-lock time of 1 second was rejected on a lock with a session.
C15_Witness ==
    /\ last.op = "Lock.set_auto_lock_time"
    /\ last.target = 1
    /\ last.exc = "ValueError"
    /\ last.reqs = <<>>
    /\ lock._auth = TheAuth

\* C16, as the specification states it: when refresh, refresh_access_codes,
\* lock, unlock, set_beeper, set_lock_and_leave or set_auto_lock_time raises,
\* every field of the lock, its access_codes map included, has the value it
\* had before the call.
C16_RaisedCallChangesNothing ==
    [][LET o == last'
       IN  (/\ o.op \in ToggleOps \cup SetterOps
                        \cup {"Lock.refresh", "Lock.refresh_access_codes"}
            /\ o.exc # "ok")
           => lock' = lock
      ]_vars

-----------------------------------------------------------------------------
(* Auth.request and Auth.authenticate: the two wrappers around the transport *)

\* What requests.request(...) does: it returns a response (a status with its
\* reason phrase, and a body that is a JSON object, a JSON array or no JSON),
\* or raises what the identity provider raised from inside the signing of the
\* request, or what the connection raised.
Transports ==
    LET reasons == [st \in {200, 204, 304, 401, 404, 500} |->
                       CASE st = 200 -> "OK"
                         [] st = 204 -> "No Content"
                         [] st = 304 -> "Not Modified"
                         [] st = 401 -> "Unauthorized"
                         [] st = 404 -> "Not Found"
                         [] st = 500 -> "Internal Server Error"]
        bodies == {[kind |-> "object", value |-> [message |-> "m"]],
                   [kind |-> "object", value |-> [error |-> "e"]],
                   [kind |-> "array"],
                   [kind |-> "text"]}
        errors == {[Code |-> "NotAuthorizedException", Message |-> "bad"],
                   [Code |-> "UserNotFoundException"],
                   [Code |-> "ResourceNotFoundException", Message |-> "gone"],
                   EmptyDict}
    IN  { [exc |-> "ok", status |-> st, reason |-> reasons[st], body |-> b] :
            st \in DOMAIN reasons, b \in bodies }
        \cup { [exc |-> "ClientError", Error |-> e] : e \in errors }
        \cup {[exc |-> "ConnectionError"], [exc |-> "Timeout"]}

\* _translate_auth_errors around a call with result r (of the transport).
TranslateAuthErrors(r) ==
    IF r.exc = "ClientError"
    THEN IF Get(r.Error, "Code", "")
              \in {"NotAuthorizedException", "InvalidPasswordException",
                   "PasswordResetRequiredException", "UserNotFoundException",
                   "UserNotConfirmedException"}       \* _NOT_AUTHORIZED_ERRORS
         THEN Result("NotAuthorizedError", Get(r.Error, "Message", "Not authorized"))
         ELSE Result("UnknownError", "ClientError")
    ELSE IF r.exc = "ok" THEN Result("ok", r)
    ELSE Result(r.exc, "")

\* _translate_http_errors around a call with result r: the call is made
\* outside the try, so what it raises passes through.
TranslateHttpErrors(r) ==
    IF r.exc # "ok" THEN r
    ELSE IF ~(400 <= r.value.status /\ r.value.status < 600) THEN r    \* raise_for_status
    ELSE LET resp == r.value
         IN  CASE resp.body.kind = "text" -> Result("UnknownError", resp.reason)
               [] resp.body.kind = "object" ->
                    Result("UnknownError", Get(resp.body.value, "message", resp.reason))
               [] resp.body.kind = "array" -> Result("AttributeError", "")

\* Auth.request(method, "foo/bar")
DoRequest ==
    \E method \in {"get", "post", "put", "delete"}, t \in Transports :
        LET r == TranslateHttpErrors(TranslateAuthErrors(t))
        IN  Commit("Auth.request", 0,
                   [Ctx(0) EXCEPT !.reqs = <<Call(method, "foo/bar", <<>>)>>,
                                  !.exc = r.exc, !.ret = <<r.value>>],
                   t, <<>>, <<>>)

\* Auth.authenticate(): the signing alone, under _translate_auth_errors.
DoAuthenticate ==
    \E t \in {[exc |-> "none"]} \cup { x \in Transports : x.exc \notin {"ok", "Timeout"} } :
        LET r == IF t.exc = "none" THEN Result("ok", None) ELSE TranslateAuthErrors(t)
        IN  Commit("Auth.authenticate", 0, [Ctx(0) EXCEPT !.exc = r.exc, !.ret = <<r.value>>],
                   t, <<>>, <<>>)

\* A read of auth.user_id.
DoUserId ==
    \E fail \in FailAt(1) :
        LET s == AuthUserId(Ctx(fail))
        IN  Commit("Auth.user_id", 0, [s EXCEPT !.ret = IF s.exc = "ok" THEN s.uid ELSE <<>>],
                   EmptyDict, <<>>, <<>>)

NextAuth == DoRequest \/ DoAuthenticate \/ DoUserId

\* A caller of the session itself.
InitAuth == NoCalls({}) /\ NoThreads

SpecAuth == InitAuth /\ [][NextAuth]_vars

PackageErrors == {"NotAuthenticatedError", "NotAuthorizedError", "UnknownError"}

\* C17, as the specification states it: request() raises NotAuthorizedError
\* for a response with status 401, UnknownError for every other status outside
\* 2xx, with the 'message' of a JSON body or else the reason phrase as its
\* message, and returns a 2xx response.
C17_StatusToError ==
    (last.op = "Auth.request" /\ last.resp.exc = "ok") =>
        LET resp == last.resp
        IN  IF resp.status = 401 THEN last.exc = "NotAuthorizedError"
            ELSE IF resp.status \in 200..299
                 THEN last.exc = "ok" /\ last.ret = <<resp>>
                 ELSE /\ last.exc = "UnknownError"
                      /\ last.ret = <<IF resp.body.kind = "object"
                                         /\ "message" \in DOMAIN resp.body.value
                                      THEN resp.body.value.message
                                      ELSE resp.reason>>

\* C18, as the specification states it: whatever fails in request() or
\* authenticate() (error status, identity provider, connection, timeout), the
\* caller sees NotAuthenticatedError, NotAuthorizedError or UnknownError.
C18_OnlyPackageErrors ==
    (last.op \in {"Auth.request", "Auth.authenticate"} /\ last.exc # "ok") =>
        last.exc \in PackageErrors

\* C19: over a sequential series of reads of auth.user_id, a read while no
\* value is cached issues exactly one GET users/@me and, when it is answered,
\* caches and returns the id; every later read returns the cached value and
\* issues no request.
C19_UserIdMemoized ==
    [][LET o == last'
       IN  o.op = "Auth.user_id" =>
             IF IsNone(uid)
             THEN /\ Len(o.reqs) = 1
                  /\ IsUserIdGet(o.reqs[1])
                  /\ o.exc = "ok" => uid' = Some(USER_ID) /\ o.ret = uid'
                  /\ o.exc # "ok" => uid' = None
             ELSE /\ o.reqs = <<>>
                  /\ o.exc = "ok"
                  /\ o.ret = uid
                  /\ uid' = uid
      ]_vars

\* The user id was read again, from the cache.
C19_Witness ==
    /\ last.op = "Auth.user_id"
    /\ last.exc = "ok"
    /\ last.reqs = <<>>
    /\ last.ret = Some(USER_ID)
    /\ uid = Some(USER_ID)

-----------------------------------------------------------------------------
(* Lock.refresh *)

IsDeviceGet(q) == q.method = "get" /\ q.url = "devices/{id}" /\ q.id = DEVICE_ID

\* C21: refresh() is idempotent: when two consecutive refresh() calls with
\* the same arguments both return and were answered with the same payloads,
\* every field of the lock after the second is as after the first.
C21_RefreshIdempotent ==
    [][(/\ last.op = "Lock.refresh"
        /\ last.exc = "ok"
        /\ last'.op = "Lock.refresh"
        /\ last'.exc = "ok"
        /\ last'.target = last.target
        /\ last'.resp = last.resp
        /\ last'.notif_resp = last.notif_resp
        /\ last'.code_resp = last.code_resp)
       => lock' = lock
      ]_vars

\* A refresh was answered with a payload that differs from the one the lock
\* was decoded from, and the lock carries it.
C21_Witness ==
    /\ last.op = "Lock.refresh"
    /\ last.exc = "ok"
    /\ last.resp.attributes.autoLockTime = 15
    /\ lock.auto_lock_time = 15
    /\ lock = LockFromJson(TheAuth, last.resp)

\* C22, as the specification states it: refresh() without arguments issues GET
\* devices/{id}, GET notifications of the device and GET of the device's
\* access codes, in this order, and the lock then has the fields of the
\* fetched payload.
C22_DefaultRefreshCascades ==
    (last.op = "Lock.refresh" /\ last.target = <<>> /\ Answered(last)) =>
        /\ Len(DeviceRequests(last)) = 3
        /\ IsDeviceGet(DeviceRequests(last)[1])
        /\ IsNotificationsGet(DeviceRequests(last)[2])
        /\ IsAccessCodesGet(DeviceRequests(last)[3])
        /\ lock.auto_lock_time = last.resp.attributes.autoLockTime

-----------------------------------------------------------------------------
(* Lock.from_json and what the lock tells about its state *)

\* C25, as the specification states it: a lock decoded from a payload whose
\* attributes lack lockState has is_locked, is_jammed, battery_level and
\* firmware_version all None.
C25_NoLockStateAllNone ==
    (last.op = "Lock.from_json" /\ "lockState" \notin DOMAIN last.resp.attributes) =>
        /\ lock.is_locked = None
        /\ lock.is_jammed = None
        /\ lock.battery_level = None
        /\ lock.firmware_version = None

\* C25, amended: each of the fields is None exactly when its own attribute is
\* absent (lockState for is_locked and is_jammed, batteryLevel for
\* battery_level, mainFirmwareVersion for firmware_version), and has the
\* value of the attribute otherwise; a payload that lacks the three
\* attributes gives None four times, never False, 0 or "".
C25_AbsentAttributeIsNone ==
    last.op = "Lock.from_json" =>
        LET a == last.resp.attributes
        IN  /\ IF "lockState" \in DOMAIN a
               THEN /\ lock.is_locked = Some(a.lockState = 1)
                    /\ lock.is_jammed = Some(a.lockState = 2)
               ELSE lock.is_locked = None /\ lock.is_jammed = None
            /\ IF "batteryLevel" \in DOMAIN a
               THEN lock.battery_level = Some(a.batteryLevel)
               ELSE lock.battery_level = None
            /\ IF "mainFirmwareVersion" \in DOMAIN a
               THEN lock.firmware_version = Some(a.mainFirmwareVersion)
               ELSE lock.firmware_version = None

\* The payload of an unavailable lock was decoded.
C25_Witness ==
    /\ last.op = "Lock.from_json"
    /\ DOMAIN last.resp.attributes = {"modelName"}
    /\ lock.is_locked = None
    /\ lock.is_jammed = None
    /\ lock.battery_level = None
    /\ lock.firmware_version = None

C28_LastChangedBy ==
    [][LET o == last'
           md == lock.lock_state_metadata
           known == Val(md).uuid # None /\ Val(Val(md).uuid) \in DOMAIN lock.users
           suffixed(role) == IF known
                             THEN role \o " - " \o lock.users[Val(Val(md).uuid)].name
                             ELSE role
           a == Val(md).action_type
       IN  o.op = "Lock.last_changed_by" =>
               /\ o.reqs = <<>>
               /\ o.exc = "ok"
               /\ lock' = lock
               /\ md = None => o.ret = None
               /\ md # None =>
                    /\ a = "thumbTurn" => o.ret = Some("thumbturn")
                    /\ a = "1touchLocking" => o.ret = Some("1-touch locking")
                    /\ a = "accesscode" /\ Val(md).name # None =>
                           o.ret = Some("keypad - " \o Val(Val(md).name))
                    /\ a = "AppleHomeNFC" => o.ret = Some(suffixed("apple nfc device"))
                    /\ a = "virtualKey" => o.ret = Some(suffixed("mobile device"))
                    /\ a \notin {"thumbTurn", "1touchLocking", "accesscode",
                                 "AppleHomeNFC", "virtualKey"} => o.ret = Some("unknown")
      ]_vars

\* A lock changed by the virtual key of an actor that is none of its two
\* users answered with the role alone.
C28_Witness ==
    /\ last.op = "Lock.last_changed_by"
    /\ lock.lock_state_metadata # None
    /\ Val(lock.lock_state_metadata).action_type = "virtualKey"
    /\ Val(lock.lock_state_metadata).uuid = Some("u9")
    /\ DOMAIN lock.users = {"u1", "u2"}
    /\ last.ret = Some("mobile device")

\* The list keypad_disabled judged in the call o: the one supplied, or the
\* decoded answer of the server.
LogsOf(o) ==
    IF o.target = None
    THEN [i \in 1..Len(o.resp) |-> LockLogFromJson(o.resp[i])]
    ELSE Val(o.target)

IsLogsGet(q) == q.method = "get" /\ q.url = "devices/{id}/logs" /\ q.id = DEVICE_ID

\* C27: keypad_disabled(logs) is True exactly when the list is non-empty and
\* its chronologically newest entry carries "Keypad disabled invalid code";
\* an empty list gives False; the result is the same for every ordering of
\* the supplied list; and when logs is omitted the list comes from exactly one
\* logs() call (and no request is made when it is supplied).
C27_KeypadDisabledNewest ==
    last.op = "Lock.keypad_disabled" /\ last.exc = "ok" =>
        LET logs == LogsOf(last)
            newest(i) == \A j \in 1..Len(logs) : logs[j].created_at <= logs[i].created_at
            disabled(i) == logs[i].message = "Keypad disabled invalid code"
            reordered(p) == [i \in 1..Len(logs) |-> logs[p[i]]]
        IN  /\ logs = <<>> => last.ret = Some(FALSE)
            /\ last.ret = Some(TRUE) => \E i \in 1..Len(logs) : newest(i) /\ disabled(i)
            /\ last.ret = Some(FALSE) =>
                   logs = <<>> \/ \E i \in 1..Len(logs) : newest(i) /\ ~disabled(i)
            /\ last.target # None =>
                   /\ last.reqs = <<>>
                   /\ \A p \in Permutations(1..Len(logs)) :
                          KeypadDisabled(Ctx(0), Some(reordered(p)), <<>>).ret = last.ret
            /\ last.target = None => Len(last.reqs) = 1 /\ IsLogsGet(last.reqs[1])

-----------------------------------------------------------------------------
(* Callers of the schedule and access code conversions *)

\* The caller decodes a day mask and encodes it again:
\* DaysOfWeek.from_str(x).to_str(), x an upper-case hex text of a 7-bit value
\* without leading zeros.
DoDaysOfWeek ==
    LET digits == {"0", "1", "2", "3", "4", "5", "6", "7", "8", "9",
                   "A", "B", "C", "D", "E", "F"}
        texts == { <<d>> : d \in digits }
                 \cup { <<h, d>> : h \in {"1", "2", "3", "4", "5", "6", "7"}, d \in digits }
    IN  \E x \in texts :
            LET days == DaysOfWeekFromStr(x)
                r == IF days.exc # "ok" THEN days
                     ELSE Result("ok", DaysOfWeekToStr(days.value))
            IN  Commit("DaysOfWeek.from_str.to_str", x,
                       [Ctx(0) EXCEPT !.exc = r.exc, !.ret = r.value], <<>>, <<>>, <<>>)

\* The caller encodes a schedule and decodes the result,
\* RecurringSchedule.from_json(sched.to_json()), or decodes a missing or an
\* empty schedule payload.
DoRecurringSchedule ==
    LET windows == {<<0, 0, 23, 59>>, <<1, 0, 23, 59>>, <<0, 1, 23, 59>>,
                    <<0, 0, 22, 59>>, <<0, 0, 23, 58>>, <<9, 30, 17, 5>>}
    IN  \/ \E days \in [1..7 -> BOOLEAN], w \in windows :
               LET sched == [days_of_week |-> days,
                             start_hour |-> w[1], start_minute |-> w[2],
                             end_hour |-> w[3], end_minute |-> w[4]]
                   json == RecurringScheduleToJson(sched)
                   r == RecurringScheduleFromJson(Some(json))
               IN  Commit("RecurringSchedule.to_json.from_json", sched,
                          [Ctx(0) EXCEPT !.exc = r.exc, !.ret = r.value], json, <<>>, <<>>)
        \/ \E json \in {None, Some(EmptyDict)} :
               LET r == RecurringScheduleFromJson(json)
               IN  Commit("RecurringSchedule.from_json", json,
                          [Ctx(0) EXCEPT !.exc = r.exc, !.ret = r.value], <<>>, <<>>, <<>>)

\* The access codes a caller encodes: codes with and without leading zeros,
\* with no schedule, with recurring schedules (some days in office hours, the
\* default of every day from 00:00 to 23:59, no day at all) and with
\* temporary schedules (whole seconds, a start with microseconds, and the
\* window from the epoch to 0xFFFFFFFF).
AccessCodeInputs ==
    LET recurring(days, w) == [days_of_week |-> days,
                               start_hour |-> w[1], start_minute |-> w[2],
                               end_hour |-> w[3], end_minute |-> w[4]]
        weekdays == [i \in 1..7 |-> i \in 2..6]
        at(secs, microsecond) == [secs |-> secs, microsecond |-> microsecond]
        schedules ==
            {None,
             Some(recurring(weekdays, <<9, 30, 17, 5>>)),
             Some(recurring([i \in 1..7 |-> TRUE], <<0, 0, 23, 59>>)),
             Some(recurring([i \in 1..7 |-> FALSE], <<0, 0, 23, 59>>)),
             Some([start |-> at(<<25000, 100>>, 0), end |-> at(<<25000, 3700>>, 0)]),
             Some([start |-> at(<<25000, 100>>, 250000), end |-> at(<<25000, 3700>>, 0)]),
             Some([start |-> at(MIN_TIME, 0), end |-> at(MAX_TIME, 0)])}
    IN  { [_auth |-> TheAuth, _device |-> TheLock, _notification |-> NoRef,
           name |-> "a", code |-> code, schedule |-> schedule,
           notify_on_use |-> notify_on_use, disabled |-> disabled,
           device_id |-> Some(DEVICE_ID), access_code_id |-> Some(<<"7">>),
           _json |-> TRUE] :
            code \in {<<"1", "2", "3", "4">>, <<"0", "0", "1", "2">>, <<"9", "0", "7", "0", "5">>},
            schedule \in schedules,
            notify_on_use \in BOOLEAN, disabled \in BOOLEAN }

\* The caller encodes an access code and decodes the result:
\* AccessCode.from_json(auth, c.to_json(), device).
DoAccessCode ==
    \E c \in AccessCodeInputs :
        LET json == AccessCodeToJson(c)
            schedule == ScheduleFromJson(json)
            decoded == IF schedule.exc # "ok" THEN <<>>
                       ELSE AccessCodeFromJson(TheAuth, TheLock, DEVICE_ID, json)
        IN  Commit("AccessCode.to_json.from_json", c,
                   [Ctx(0) EXCEPT !.exc = schedule.exc, !.ret = decoded],
                   json, <<>>, <<>>)

NextCodec ==
    \/ DoDaysOfWeek
    \/ DoRecurringSchedule
    \/ DoAccessCode

\* A caller that encodes and decodes schedules.
SpecCodec == InitDecode /\ [][NextCodec]_vars

\* C30: DaysOfWeek.from_str(x).to_str() is x for every upper-case hex text x
\* of a 7-bit value without leading zeros, "0" through "7F".
C30_DaysOfWeekRoundTrip ==
    last.op = "DaysOfWeek.from_str.to_str" =>
        last.exc = "ok" /\ last.ret = last.target

\* The schedule of every day from 00:00 to 23:59.
IsAllDays(sched) ==
    /\ \A i \in 1..7 : sched.days_of_week[i]
    /\ sched.start_hour = 0 /\ sched.start_minute = 0
    /\ sched.end_hour = 23 /\ sched.end_minute = 59

\* C29: for every RecurringSchedule s, of any of the 128 day masks,
\* RecurringSchedule.from_json(s.to_json()) is s, except that the schedule of
\* every day from 00:00 to 23:59 decodes to None; a missing or an empty
\* schedule payload decodes to None.
C29_ScheduleRoundTrip ==
    /\ last.op = "RecurringSchedule.to_json.from_json" =>
           /\ last.exc = "ok"
           /\ last.ret = IF IsAllDays(last.target) THEN None ELSE Some(last.target)
    /\ last.op = "RecurringSchedule.from_json" =>
           last.exc = "ok" /\ last.ret = None

-----------------------------------------------------------------------------
(* The push channel: Auth.subscribe and the handler of inbound messages.    *)
(* A topic is the sequence of the segments its text has between the "/".    *)

\* The subscribe calls that may return.
MaxSubscribes == 3

\* _make_mqtt that asks for the connection parameters with the token it has.
MakeMqttWithoutAuthenticate(m, device_id, fail) ==
    LET wss == Request("get", "wss", <<>>, <<>>,
                       [headers |-> [token |-> "id_token"],
                        params |-> [deviceId |-> device_id]])
    IN  IF fail \in {1, 2} THEN [exc |-> "UnknownError", reqs |-> <<wss>>, mqtt |-> m]
        ELSE IF fail = 3 THEN [exc |-> "OSError", reqs |-> <<wss>>, mqtt |-> m]
        ELSE [exc |-> "ok", reqs |-> <<wss>>,
              mqtt |-> [m EXCEPT !.clients =
                            Append(@, [device_id |-> device_id, topics |-> <<>>])]]

\* Auth._make_mqtt(device_id): authenticate(), GET wss, then a new MQTTClient
\* that is connected and whose loop is started.  fail is the step that
\* raises: 1 authenticate, 2 the GET, 3 mqtt.connect; 0 none.  The steps the
\* session takes are logged in their order: authenticate() (the signing of an
\* empty request, logged with the method "authenticate") and the GET.
MakeMqtt(m, device_id, fail) ==
    LET authenticate == Request("authenticate", "", <<>>, <<>>, EmptyDict)
        wss == Request("get", "wss", <<>>, <<>>,
                       [headers |-> [token |-> "id_token"],
                        params |-> [deviceId |-> device_id]])
    IN  IF fail = 1
        THEN [exc |-> "NotAuthorizedError", reqs |-> <<authenticate>>, mqtt |-> m]
        ELSE IF fail = 2
        THEN [exc |-> "UnknownError", reqs |-> <<authenticate, wss>>, mqtt |-> m]
        ELSE IF fail = 3
        THEN [exc |-> "OSError", reqs |-> <<authenticate, wss>>, mqtt |-> m]
        ELSE [exc |-> "ok", reqs |-> <<authenticate, wss>>,
              mqtt |-> [m EXCEPT !.clients =
                            Append(@, [device_id |-> device_id, topics |-> <<>>])]]

\* Auth.subscribe(device_id, callback, subscription_type)
Subscribe(m, device_id, callback, subscription_type, fail) ==
    LET made == MakeMqtt(m, device_id, fail)
        k == Len(made.mqtt.clients)
        topic == <<"thincloud", "devices", device_id, subscription_type>>
        key == <<device_id, topic>>
        fresh == key \notin DOMAIN made.mqtt.callbacks
    IN  IF made.exc # "ok" THEN made
        ELSE [made EXCEPT
                 !.mqtt.clients[k].topics = IF fresh THEN Append(@, topic) ELSE @,
                 !.mqtt.callbacks = IF fresh THEN (key :> <<callback>>) @@ @
                                    ELSE [@ EXCEPT ![key] = Append(@, callback)],
                 !.mqtt.subscribed = Append(@, [device_id |-> device_id,
                                                subscription_type |-> subscription_type,
                                                callback |-> callback])]

\* _on_message that tells the first callback of the topic only.
OnMessageToFirst(m, device_id, topic, payload) ==
    IF payload = <<>> THEN <<>>
    ELSE <<[callback |-> m.callbacks[<<device_id, topic>>][1],
            topic |-> topic[Len(topic)], data |-> payload[1]]>>

\* Auth._on_message(device_id, _, _, message): the calls of callbacks it makes,
\* in their order.  payload is the empty text, or <<j>> for the text of the
\* JSON value j; message.topic.split("/")[-1] is the last segment.
OnMessage(m, device_id, topic, payload) ==
    IF payload = <<>> THEN <<>>
    ELSE LET cbs == m.callbacks[<<device_id, topic>>]
         IN  [i \in 1..Len(cbs) |->
                 [callback |-> cbs[i], topic |-> topic[Len(topic)], data |-> payload[1]]]

\* A call on the push channel returned or raised.
CommitPush(op, target, m, reqs, exc, ret, resp) ==
    /\ mqtt' = m
    /\ last' = [op |-> op, target |-> target, reqs |-> reqs, exc |-> exc, ret |-> ret,
                resp |-> resp, notif_resp |-> <<>>, code_resp |-> <<>>]
    /\ UNCHANGED <<lock, codes, notifs, uid, stored, threads, sent, entity, held>>

\* The caller subscribes a callback to the reported or the desired state of
\* one of two devices.
DoSubscribe ==
    \E device_id \in {DEVICE_ID, <<"e">>}, callback \in {"f", "g"},
       subscription_type \in {"reported", "desired"}, fail \in 0..3 :
        /\ Len(mqtt.clients) < MaxSubscribes
        /\ LET r == Subscribe(mqtt, device_id, callback, subscription_type, fail)
           IN  CommitPush("Auth.subscribe",
                          [device_id |-> device_id, callback |-> callback,
                           subscription_type |-> subscription_type],
                          r.mqtt, r.reqs, r.exc, <<>>, <<>>)

\* The loop of a client receives a message of a topic the client subscribed
\* and runs the client's on_message, which is _on_message with the device id
\* the client was made for.
DoOnMessage ==
    \E k \in 1..Len(mqtt.clients), payload \in {<<>>, <<[lockState |-> 1]>>} :
        \E i \in 1..Len(mqtt.clients[k].topics) :
            LET topic == mqtt.clients[k].topics[i]
                device_id == mqtt.clients[k].device_id
            IN  CommitPush("Auth._on_message", [device_id |-> device_id, topic |-> topic],
                           mqtt, <<>>, "ok", OnMessage(mqtt, device_id, topic, payload),
                           payload)

NextPush ==
    \/ DoSubscribe
    \/ DoOnMessage

\* A caller that subscribes callbacks, and the messages that arrive.
SpecPush == InitAuth /\ [][NextPush]_vars

\* C23: over any sequence of subscribe() calls on one session at most one
\* push connection (a transport client with its receive loop) is created; the
\* first subscribe establishes it and every later subscribe reuses it.
C23_OneConnection == Len(mqtt.clients) <= 1

\* The subscribe calls of callbacks to the topic of (device_id, type), in
\* the order they returned.
RECURSIVE SubscribersOf(_, _, _)
SubscribersOf(subscribed, device_id, type) ==
    IF subscribed = <<>> THEN <<>>
    ELSE LET c == subscribed[1]
             rest == SubscribersOf(Tail(subscribed), device_id, type)
         IN  IF c.device_id = device_id /\ c.subscription_type = type
             THEN <<c.callback>> \o rest
             ELSE rest

\* How often topic was subscribed on the transport, over all clients.
TransportSubscriptions(topic) ==
    Cardinality({ <<k, i>> \in (1..Len(mqtt.clients)) \X (1..MaxSubscribes) :
                    /\ i <= Len(mqtt.clients[k].topics)
                    /\ mqtt.clients[k].topics[i] = topic })

\* C24: a message with a non-empty payload is handed, with the last segment
\* of its topic and its decoded payload, to every callback that subscribe()
\* registered for the device id and topic, repeated subscribes included; the
\* topic of every returned subscribe is subscribed on the transport exactly
\* once; a message with an empty payload calls no callback and raises nothing.
C24_FanOut ==
    /\ last.op = "Auth._on_message" =>
           LET type == last.target.topic[4]
               cbs == SubscribersOf(mqtt.subscribed, last.target.device_id, type)
           IN  /\ last.exc = "ok"
               /\ last.resp = <<>> => last.ret = <<>>
               /\ last.resp # <<>> =>
                      last.ret = [i \in 1..Len(cbs) |->
                                     [callback |-> cbs[i], topic |-> type,
                                      data |-> last.resp[1]]]
    /\ \A i \in 1..Len(mqtt.subscribed) :
           TransportSubscriptions(<<"thincloud", "devices", mqtt.subscribed[i].device_id,
                                    mqtt.subscribed[i].subscription_type>>) = 1

\* A message reached the two callbacks that two subscribes registered for
\* one topic.
C24_Witness ==
    /\ last.op = "Auth._on_message"
    /\ last.resp # <<>>
    /\ Len(last.ret) = 2
    /\ last.ret[1].callback = "f"
    /\ last.ret[2].callback = "g"
    /\ Len(mqtt.clients) = 2

IsAuthenticate(q) == q.method = "authenticate"

IsWssGet(q) == q.method = "get" /\ q.url = "wss"

\* C35: in every subscribe, each GET wss is immediately preceded by an
\* authenticate() of the session; when that authenticate() fails, no GET wss
\* is issued and no connection is opened.
C35_AuthenticateBeforeWss ==
    [][LET o == last'
       IN  o.op = "Auth.subscribe" =>
               /\ \A i \in 1..Len(o.reqs) :
                      IsWssGet(o.reqs[i]) => i > 1 /\ IsAuthenticate(o.reqs[i - 1])
               /\ (o.exc # "ok" /\ IsAuthenticate(o.reqs[Len(o.reqs)])) =>
                      /\ \A i \in 1..Len(o.reqs) : ~IsWssGet(o.reqs[i])
                      /\ mqtt'.clients = mqtt.clients
               /\ Len(mqtt'.clients) > Len(mqtt.clients) =>
                      \E i \in 1..Len(o.reqs) : IsWssGet(o.reqs[i])
      ]_vars

\* A subscribe opened a connection after authenticate() and the GET.
C35_Witness ==
    /\ last.op = "Auth.subscribe"
    /\ last.exc = "ok"
    /\ Len(last.reqs) = 2
    /\ IsAuthenticate(last.reqs[1])
    /\ IsWssGet(last.reqs[2])
    /\ Len(mqtt.clients) = 1

-----------------------------------------------------------------------------
(* A failed access-code command *)

IsAnyCommand(q) == q.method = "post" /\ q.url = "devices/{id}/commands"

\* The call ended in the failure of its access-code command request.
CommandFailed(o) ==
    /\ o.exc # "ok"
    /\ o.reqs # <<>>
    /\ IsAnyCommand(LastOf(o.reqs))

\* C39: when the command request of AccessCode.save() or AccessCode.delete()
\* fails, no notification request is issued and the access code keeps its
\* session reference, access_code_id, cached notification and disabled flag
\* (every field of it, and the cached notification object, are as before), so
\* the call can be made again.
C39_FailedCommandChangesNothing ==
    [][LET o == last'
           r == o.target
       IN  (o.op \in {"AccessCode.save", "AccessCode.delete"} /\ CommandFailed(o)) =>
             /\ \A i \in 1..Len(o.reqs) :
                    ~IsNotificationSave(o.reqs[i]) /\ ~IsNotificationDelete(o.reqs[i])
             /\ Len(o.reqs) = 1
             /\ codes'[r] = codes[r]
             /\ codes'[r]._auth # NoAuth
             /\ notifs' = notifs
             /\ stored' = stored
      ]_vars

\* The delete command of a code with a cached notification failed.
C39_Witness ==
    /\ last.op = "AccessCode.delete"
    /\ CommandFailed(last)
    /\ IsCommand(last.reqs[1], "deleteaccesscode")
    /\ codes[last.target]._notification # NoRef
    /\ codes[last.target]._auth # NoAuth
    /\ ~codes[last.target].disabled

-----------------------------------------------------------------------------
(* lock.access_codes and the codes it lists *)

\* The entries of lock.access_codes: the ids it has a code for.
ListedIds ==
    IF IsNone(lock.access_codes) THEN {}
    ELSE { id \in DOMAIN Val(lock.access_codes) : Val(lock.access_codes)[id] # NoRef }

\* C40, as the specification states it: every entry of lock.access_codes is
\* keyed by the access_code_id of its value and refers to an attached (not
\* deleted) access code, and a code that add_access_code has just added is in
\* the map under its id.
C40_MapTracksCodes ==
    /\ \A id \in ListedIds :
           LET r == Val(lock.access_codes)[id]
           IN  /\ r \in CodeRefs
               /\ codes[r].access_code_id = Some(id)
               /\ codes[r]._auth # NoAuth
    /\ (last.op = "Lock.add_access_code" /\ last.exc = "ok") =>
           /\ ~IsNone(codes[last.target].access_code_id)
           /\ Val(codes[last.target].access_code_id) \in ListedIds

-----------------------------------------------------------------------------
(* The device type of a code's notification *)

\* C38, as the specification states it: every notification request of a
\* save() (called directly or by add_access_code) carries the parent lock's
\* device type as devicetypeId, and the notification the code caches keeps
\* that device_type after the save.
C38_DeviceTypeKept ==
    (last.op \in SaveOps /\ last.exc = "ok") =>
        /\ \A i \in 1..Len(last.reqs) :
               IsNotificationSave(last.reqs[i]) =>
                   last.reqs[i].args[1].devicetypeId = Some(lock.device_type)
        /\ notifs[codes[last.target]._notification].device_type = Some(lock.device_type)

-----------------------------------------------------------------------------
(* The access_codes map across a merge *)

\* The calls that merge a lock payload and fetch no access codes: refresh
\* with include_access_codes absent or False, and the attribute PUTs.
IsPlainMerge(o, l) ==
    \/ o.op = "Lock.refresh" /\ o.target \in {<<>>, <<FALSE>>}
    \/ o.op \in {"Lock.set_beeper", "Lock.set_lock_and_leave", "Lock.set_auto_lock_time"}
    \/ o.op \in {"Lock.lock", "Lock.unlock"} /\ IsWifiLock(l)

\* C36, as the specification states it: refresh() without include_access_codes
\* and every attribute-PUT operation leave the lock's access_codes map as it
\* was before the call.
C36_MergeKeepsAccessCodes ==
    [][IsPlainMerge(last', lock) => lock'.access_codes = lock.access_codes]_vars

-----------------------------------------------------------------------------
(* Two merges on one entity *)

\* Thread t has run _update_with to its end.
Merged(t) == threads[t].pc = "done" /\ ~IsNone(threads[t].new_obj)

\* C37, as the specification states it: once the merges of all threads have
\* completed, the fields of the entity all come from the payload of one and
\* the same thread.
C37_NotTorn ==
    (\A t \in Threads : Merged(t)) =>
        \E t \in Threads :
            /\ entity.name = threads[t].new_obj.name
            /\ entity.model_name = threads[t].new_obj.model_name

-----------------------------------------------------------------------------
(* The mutex and the network *)

\* Thread t has sent a request and waits for its answer.
InNetworkCall(t) == threads[t].pc \in {"request", "further"}

\* C34: a thread that is inside a network call of refresh, _put_attributes or
\* Notification.save holds no mutex: the request before the merge is answered
\* before the mutex is acquired, and the mutex is released before a further
\* request is sent.
C34_NoMutexAcrossRequest ==
    \A t \in Threads : InNetworkCall(t) => \A m \in DOMAIN held : held[m] # t

\* A thread has merged its payload and is inside the request that follows,
\* while the other thread copies fields.
C34_Witness ==
    \E t, u \in Threads :
        /\ threads[t].pc = "further"
        /\ ~IsNone(threads[t].new_obj)
        /\ threads[u].pc = "copy"
        /\ held[threads[u].mu] = u

-----------------------------------------------------------------------------
(* AccessCode.to_json and AccessCode.from_json *)

\* C31, as the specification states it: for every access code c with an id
\* whose schedule is None, a RecurringSchedule or a TemporarySchedule,
\* AccessCode.from_json(c.to_json()) has the name, code, notify_on_use,
\* disabled flag and schedule of c.
C31_AccessCodeRoundTrip ==
    last.op = "AccessCode.to_json.from_json" =>
        /\ last.exc = "ok"
        /\ last.ret.name = last.target.name
        /\ last.ret.code = last.target.code
        /\ last.ret.notify_on_use = last.target.notify_on_use
        /\ last.ret.disabled = last.target.disabled
        /\ last.ret.schedule = last.target.schedule

\* RecurringSchedule().to_json()
DefaultSchedule1 ==
    [daysOfWeek |-> <<"7", "F">>, startHour |-> 0, startMinute |-> 0,
     endHour |-> 23, endMinute |-> 59]

\* C32: to_json() always emits activationSecs, expirationSecs and schedule1;
\* with a RecurringSchedule the time window is 0 / 0xFFFFFFFF and schedule1 is
\* the schedule's, with a TemporarySchedule the window is the schedule's and
\* schedule1 is the default of every day from 00:00 to 23:59, and with no
\* schedule both have their defaults.
C32_BothShapesEmitted ==
    last.op = "AccessCode.to_json.from_json" =>
        LET c == last.target
            json == last.resp
            sentinel == json.activationSecs = MIN_TIME /\ json.expirationSecs = MAX_TIME
        IN  /\ {"activationSecs", "expirationSecs", "schedule1"} \subseteq DOMAIN json
            /\ IsNone(c.schedule) => sentinel /\ json.schedule1 = DefaultSchedule1
            /\ (~IsNone(c.schedule) /\ IsRecurring(c.schedule)) =>
                   /\ sentinel
                   /\ json.schedule1 = RecurringScheduleToJson(Val(c.schedule))
            /\ (~IsNone(c.schedule) /\ ~IsRecurring(c.schedule)) =>
                   /\ json.schedule1 = DefaultSchedule1
                   /\ json.activationSecs = Val(c.schedule).start.secs
                   /\ json.expirationSecs = Val(c.schedule).end.secs

\* A code with a temporary schedule was encoded.
C32_Witness ==
    /\ last.op = "AccessCode.to_json.from_json"
    /\ ~IsNone(last.target.schedule)
    /\ ~IsRecurring(last.target.schedule)
    /\ last.resp.activationSecs = <<25000, 100>>
    /\ last.resp.schedule1.daysOfWeek = <<"7", "F">>

-----------------------------------------------------------------------------
(* Diagnostics *)

\* The value stands for one that is held back.
Redacted(value) ==
    IF value.t = "scalar" THEN value.v = "<REDACTED>"
    ELSE /\ value.t = "list"
         /\ Len(value.v) = 1
         /\ value.v[1].t = "scalar"
         /\ value.v[1].v = "<REDACTED>"

\* C33: get_diagnostics() returns the raw JSON with the same keys and nesting,
\* in which every scalar that is not on the allow-list is '<REDACTED>' and
\* every such list ['<REDACTED>'], under a dict of the allow-list or not, and
\* the values of the allow-list are unchanged; two locks whose raw JSON
\* differ only in values that are not on the allow-list have the same
\* diagnostics.
C33_OnlyAllowListed ==
    last.op = "Lock.get_diagnostics" =>
        LET json == last.resp
            ret == last.ret
            attributes == json.attributes.v
            shown == ret.attributes.v
        IN  /\ DOMAIN ret = DOMAIN json
            /\ \A k \in DOMAIN json : ret[k].t = json[k].t
            /\ \A k \in {"connected", "devicetypeId", "name"} : ret[k] = json[k]
            /\ \A k \in {"CAT", "deviceId", "serialNumber", "relatedDevices", "users"} :
                   Redacted(ret[k]) /\ ret[k].t = json[k].t
            /\ DOMAIN shown = DOMAIN attributes
            /\ \A k \in {"lockState", "batterySaverConfig", "lockStateMetadata"} :
                   shown[k] = attributes[k]
            /\ \A k \in {"CAT", "name", "serialNumber"} : Redacted(shown[k])
            /\ DOMAIN shown.diagnostics.v = DOMAIN attributes.diagnostics.v
            /\ \A k \in DOMAIN attributes.diagnostics.v :
                   /\ Redacted(shown.diagnostics.v[k])
                   /\ shown.diagnostics.v[k].t = attributes.diagnostics.v[k].t
            /\ \A other \in DiagnosticsInputs :
                   other.public = last.target.public => GetDiagnostics(other.json) = ret

\* The diagnostics of a lock whose payload has a device id, a serial number,
\* a code in its diagnostics and a key.
C33_Witness ==
    /\ last.op = "Lock.get_diagnostics"
    /\ last.resp.deviceId.v = "d2"
    /\ last.resp.attributes.v.diagnostics.v.lastCode.v = "9999"
    /\ last.ret.deviceId.v = "<REDACTED>"
    /\ last.ret.attributes.v.lockState.v = 1

====
